---- MODULE Spec2Model ----
(***************************************************************************)
(* The OVSDB JSON-RPC client of go-openvswitch (package ovsdb): callers    *)
(* running Client.rpc, the receive loop (listen), the echo-send loop       *)
(* (echoLoop), the echo-tick loop (echoTicker), Close, and an OVSDB server *)
(* at the other end of the stream.  Then the flow library (package ovs):   *)
(* each of its operations is applied, under a specification of its own,    *)
(* to inputs drawn from bounded sets.                                      *)
(***************************************************************************)
EXTENDS Integers, Sequences, FiniteSets, TLC

\* ---- bounds of the model ------------------------------------------------
\* Inputs of one run (calls, cancellations, ticks, server messages, Close);
\* unread messages on the stream.
MaxEvents == 4
MaxInbox == 1

\* ---- goroutines ---------------------------------------------------------
Users == {"u1", "u2"}
EchoProc == "echo"
Procs == Users \cup {EchoProc}

\* ---- values ---------------------------------------------------------------
\* A *string: the nil pointer, or a pointer to s.
NilID == <<>>
strPtr(s) == <<s>>

Deref_first(p) == "1"

Deref(p) == p[1]

\* The argument of the echo RPC (rpc.go) and the JSON params the encoder
\* writes for it; a nil argument is the Go nil interface.
NilParams == "nil"
EchoArg == "[\"github.com/digitalocean/go-openvswitch/ovsdb\"]"

Digits == <<"0", "1", "2", "3", "4", "5", "6", "7", "8", "9">>

\* strconv.FormatInt(n, 10) for n >= 0.
RECURSIVE FormatInt(_)
FormatInt(n) ==
    IF n < 10 THEN Digits[n + 1]
    ELSE FormatInt(n \div 10) \o Digits[(n % 10) + 1]

AddInt64_lost(v, d) == IF v >= 1 THEN v ELSE v + d

\* atomic.AddInt64(&v, d): the new value.
AddInt64(v, d) == v + d

\* Capacity of the callback channel: make(chan rpcResponse, 1).
ChanCap == 1

VARIABLES
    rpcID,       \* Client.rpcID
    callbacks,   \* Client.callbacks: id -> callback{Ctx, Response}
    cbMu,        \* Client.cbMu: "free", or "listen" while doCallback runs
    chans,       \* the callback channels, by the id they were made for
    ctxClient,   \* the context of the background tasks is cancelled
    connClosed,  \* the client closed the stream
    peerClosed,  \* the server closed the stream
    out,         \* requests written to the stream, in order
    inbox,       \* messages on the stream that the client has not read
    pc,          \* position of each goroutine inside Client.rpc
    rid,         \* req.ID of the rpc each goroutine runs
    userCtx,     \* the caller's context is cancelled
    cancelAt,    \* position of the caller when its context was cancelled
    ret,         \* what rpc (Echo, for the echo loop) returned last
    listenPc,    \* position of the receive loop
    listenMsg,   \* the message the receive loop is dispatching
    echoPc,      \* position of the echo-send loop
    echoTrigger, \* what woke the echo-send loop: a notification or a tick
    tickPc,      \* position of the echo-tick loop
    closePc,     \* position of the goroutine calling Close
    echoOK,      \* Client.echoOK
    echoFail,    \* Client.echoFail
    panicked,    \* the panic that ended the process, or "none"
    events       \* inputs so far

vars == <<rpcID, callbacks, cbMu, chans, ctxClient, connClosed, peerClosed,
          out, inbox, pc, rid, userCtx, cancelAt, ret, listenPc, listenMsg,
          echoPc, echoTrigger, tickPc, closePc, echoOK, echoFail, panicked,
          events>>

\* ---- state of the flow library (package ovs) -------------------------------
VARIABLES
    prRange,     \* the PortRange that BitwiseMatch is called on
    prResult,    \* what BitwiseMatch returned: [b, err], or NotCalled
    apInput,     \* the text that an actionParser reads
    apResult,    \* what actionParser.Parse returned: [actions, raw, err], or NotParsed
    flow,        \* the Flow that MarshalText is called on
    flText,      \* what Flow.MarshalText returned: [text, err], or NotMarshalled
    flParsed,    \* what Flow.UnmarshalText made of that text: [flow, err], or NotUnmarshalled
    mf,          \* the MatchFlow that MarshalText is called on
    mfText,      \* what MatchFlow.MarshalText returned: [text, err], or NotMarshalled
    txLines,     \* FlowTransaction: the buffered operations, [dir, text, err] each
    txState,     \* FlowTransaction: "open", "committed" or "discarded"
    txRet,       \* what Commit or Discard returned to fn, "none" before
    bundleRet,   \* what AddFlowBundle returned, "running" before
    execCalls,   \* invocations of ovs-ofctl so far
    nlFamily,    \* ovsnl: the generic netlink family of the response, "none" before
    nlMsg,       \* ovsnl: the message of the response: [hdrLen, attrs]
    nlResult,    \* ovsnl: what the parser returned: [val, err, over], or NotCalled
    nlcFamilies, \* ovsnl: the names that ListFamilies returns, each a sequence of lexemes
    nlcListErr,  \* ovsnl: the error that ListFamilies returns
    nlcResult,   \* ovsnl: what newClient returned: [services, err, closed], or NotCalled
    cnStream,    \* jsonrpc: the requests that Conn.Send has written to the stream, as encoded
    cnLast,      \* jsonrpc: the last call of Conn.Send: [req, err, wrote], or NoSend
    cnSends,     \* jsonrpc: calls of Conn.Send so far
    atToken,     \* ovs: the text of one action that parseAction is called on, as lexemes
    atResult,    \* ovs: what parseAction returned: [act, err], or NotRecognized
    imKey,       \* ovs: the key that parseMatch is called on
    imValue,     \* ovs: the value that parseMatch is called on, as lexemes
    imResult,    \* ovs: what parseMatch returned: [match, err], or MatchNotCalled
    ctName,      \* ovs: the datapath name that GetCTLimits is called with
    ctExecErr,   \* ovs: whether the ovs-dpctl command of the call fails
    ctOutput,    \* ovs: the output of the ovs-dpctl command, as lexemes
    ctResult     \* ovs: what GetCTLimits did: [defaultLimit, zoneLimits, err], or CtNotCalled

portVars == <<prRange, prResult>>
parserVars == <<apInput, apResult>>

flowVars == <<flow, flText, flParsed>>

matchFlowVars == <<mf, mfText>>

bundleVars == <<txLines, txState, txRet, bundleRet, execCalls>>

netlinkVars == <<nlFamily, nlMsg, nlResult>>

nlClientVars == <<nlcFamilies, nlcListErr, nlcResult>>

connVars == <<cnStream, cnLast, cnSends>>

actionTokenVars == <<atToken, atResult>>

intMatchVars == <<imKey, imValue, imResult>>

ctLimitsVars == <<ctName, ctExecErr, ctOutput, ctResult>>

ovsVars ==
    <<portVars, parserVars, flowVars, matchFlowVars, bundleVars, netlinkVars,
      nlClientVars, connVars, actionTokenVars, intMatchVars, ctLimitsVars>>
allVars == <<vars, ovsVars>>

NotCalled == [b |-> <<>>, err |-> "notCalled"]

\* The library at rest, while another part of the program runs.
PortRangeIdle == prRange = [Start |-> 0, End |-> 0] /\ prResult = NotCalled
NotParsed == [actions |-> <<>>, raw |-> <<>>, err |-> "notCalled"]
ParserIdle == apInput = <<>> /\ apResult = NotParsed
ZeroFlow ==
    [Priority |-> 0, InPort |-> 0, Matches |-> <<>>, Table |-> 0, Cookie |-> 0,
     Actions |-> <<>>]
NotMarshalled == [text |-> <<>>, err |-> "notCalled"]
NotUnmarshalled == [flow |-> ZeroFlow, err |-> "notCalled"]
FlowIdle == flow = ZeroFlow /\ flText = NotMarshalled /\ flParsed = NotUnmarshalled
ZeroMatchFlow ==
    [Cookie |-> 0, CookieMask |-> 0, Protocol |-> "", InPort |-> 0, Matches |-> <<>>,
     Table |-> 0]
MatchFlowIdle == mf = ZeroMatchFlow /\ mfText = NotMarshalled
BundleIdle ==
    /\ txLines = <<>> /\ txState = "open" /\ txRet = "none"
    /\ bundleRet = "notCalled" /\ execCalls = 0
NetlinkIdle ==
    nlFamily = "none" /\ nlMsg = [hdrLen |-> 0, attrs |-> <<>>] /\ nlResult = NotCalled
NlClientIdle ==
    nlcFamilies = <<>> /\ nlcListErr = "nil" /\ nlcResult = NotCalled
NoSend == [req |-> <<>>, err |-> "notCalled", wrote |-> 0]
ConnIdle ==
    cnStream = <<>> /\ cnLast = NoSend /\ cnSends = 0
NotRecognized == [act |-> [kind |-> "nil", args |-> <<>>], err |-> "notCalled"]
ActionTokenIdle ==
    atToken = <<>> /\ atResult = NotRecognized
MatchNotCalled == [match |-> [key |-> "", value |-> 0], err |-> "notCalled"]
IntMatchIdle ==
    imKey = "" /\ imValue = <<>> /\ imResult = MatchNotCalled
\* The ConntrackOutput values, with the error of the call.
NoLimits == [k \in {} |-> 0]
CtOut(def, zoneLimits, err) == [defaultLimit |-> def, zoneLimits |-> zoneLimits, err |-> err]
CtNil(err) == CtOut(NoLimits, <<>>, err)
CtNotCalled == CtNil("notCalled")
CTLimitsIdle ==
    ctName = "" /\ ctExecErr = FALSE /\ ctOutput = <<>> /\ ctResult = CtNotCalled
OvsIdle ==
    /\ PortRangeIdle /\ ParserIdle /\ FlowIdle /\ MatchFlowIdle /\ BundleIdle
    /\ NetlinkIdle /\ NlClientIdle /\ ConnIdle /\ ActionTokenIdle /\ IntMatchIdle
    /\ CTLimitsIdle

\* ---- helpers --------------------------------------------------------------
EmptyMap == [i \in {} |-> 0]

Remove_none(f, k) == f

Remove(f, k) == [i \in DOMAIN f \ {k} |-> f[i]]

NoMsg == [id |-> NilID, method |-> "", params |-> "", body |-> "none"]
TickMsg == [id |-> NilID, method |-> "tick", params |-> "", body |-> "none"]

Running == panicked = "none"

\* ctx.Done() is closed / ctx.Err() != nil for the context that p's rpc got:
\* the echo loop passes the context of the background tasks.
CtxDone(p) == IF p = EchoProc THEN ctxClient ELSE userCtx[p]

\* Stats().Callbacks.Current
StatsCallbacksCurrent == Cardinality(DOMAIN callbacks)

\* ---- New ------------------------------------------------------------------
ClientInit ==
    /\ rpcID = 0
    /\ callbacks = EmptyMap
    /\ cbMu = "free"
    /\ chans = EmptyMap
    /\ ctxClient = FALSE
    /\ connClosed = FALSE
    /\ peerClosed = FALSE
    /\ out = <<>>
    /\ inbox = <<>>
    /\ pc = [p \in Procs |-> "idle"]
    /\ rid = [p \in Procs |-> ""]
    /\ userCtx = [p \in Users |-> FALSE]
    /\ cancelAt = [p \in Users |-> "none"]
    /\ ret = [p \in Procs |-> "none"]
    /\ listenPc = "receive"
    /\ listenMsg = NoMsg
    /\ echoPc = "select"
    /\ echoTrigger = NoMsg
    /\ tickPc \in {"none", "wait"}
    /\ closePc = "idle"
    /\ echoOK = 0
    /\ echoFail = 0
    /\ panicked = "none"
    /\ events = 0

\* ---- channels -------------------------------------------------------------
NewChan == [buf |-> <<>>, closed |-> FALSE]

\* A send on the channel made for id can proceed: there is room in the
\* buffer, or (unbuffered) the receiver is waiting in rpc's select.
CanSend(id) ==
    IF id \notin DOMAIN chans THEN TRUE
    ELSE IF ChanCap = 0
         THEN \E p \in Procs : pc[p] = "wait" /\ rid[p] = id
         ELSE Len(chans[id].buf) < ChanCap

ChanSend(id, v) ==
    IF id \in DOMAIN chans
    THEN [chans EXCEPT ![id].buf = Append(@, v)]
    ELSE chans

ChanClose(cs, id) ==
    IF id \in DOMAIN cs THEN [cs EXCEPT ![id].closed = TRUE] ELSE cs

\* ---- results --------------------------------------------------------------
\* rpcResult: a JSON-RPC error, an OVSDB error found in the result, or nil.
rpcResult(res) ==
    IF res.Error THEN "rpcErr"
    ELSE IF res.Result = "ovsdbError" THEN "ovsdbErr"
    ELSE "ok"

\* Client.Echo: the error of rpc, or an error when the result is not the
\* argument that was sent.
Echo(err, res) ==
    IF err # "ok" THEN err
    ELSE IF res.Result # "echoed" THEN "invalidEcho"
    ELSE "ok"

\* What the goroutine p gets back: users call ListDatabases, the echo loop
\* calls Echo.
Returned(p, err, res) == IF p = EchoProc THEN Echo(err, res) ELSE err

Method(p) == IF p = EchoProc THEN "echo" ELSE "list_dbs"
Arg(p) == IF p = EchoProc THEN EchoArg ELSE NilParams

SendParams_asIs(params) == params

\* Conn.Send: nil params are written as the empty array.
SendParams(params) == IF params = NilParams THEN "[]" ELSE params

\* isClosedNetwork
isClosedNetwork(err) == err = "closedErr"

\* ---- Client.rpc -----------------------------------------------------------
RpcPrecheck_missing(done) == FALSE

\* The first select of rpc: was the context cancelled before the RPC?
RpcPrecheck(done) == done

\* rpc up to the registration: the check of the context, requestID and the
\* making of the callback channel.
RpcStart(p, done) ==
    IF RpcPrecheck(done)
    THEN /\ ret' = [ret EXCEPT ![p] = "ctxErr"]
         /\ pc' = [pc EXCEPT ![p] = "done"]
         /\ rid' = [rid EXCEPT ![p] = ""]
         /\ UNCHANGED <<rpcID, chans>>
    ELSE /\ rpcID' = AddInt64(rpcID, 1)
         /\ rid' = [rid EXCEPT ![p] = FormatInt(rpcID')]
         /\ chans' = [i \in DOMAIN chans \cup {rid'[p]} |->
                         IF i = rid'[p] THEN NewChan ELSE chans[i]]
         /\ pc' = [pc EXCEPT ![p] = "addCallback"]
         /\ ret' = [ret EXCEPT ![p] = "none"]

\* A user goroutine calls ListDatabases with a context of its own, which is
\* cancelled already or not.  (The users are interchangeable: u2 calls only
\* once u1 has.)
UserCall(p, cancelled) ==
    /\ Running
    /\ p \in Users
    /\ pc[p] \in {"idle", "done"}
    /\ p = "u2" => pc["u1"] # "idle"
    /\ events < MaxEvents
    /\ events' = events + 1
    /\ userCtx' = [userCtx EXCEPT ![p] = cancelled]
    /\ cancelAt' = [cancelAt EXCEPT ![p] =
                       IF cancelled THEN "before" ELSE "none"]
    /\ RpcStart(p, cancelled)
    /\ UNCHANGED <<callbacks, cbMu, ctxClient, connClosed, peerClosed, out,
                   inbox, listenPc, listenMsg, echoPc, echoTrigger, tickPc,
                   closePc, echoOK, echoFail, panicked>>

\* The echo loop's call of Echo enters rpc with the context of the tasks.
EchoRpcBegin ==
    /\ Running
    /\ echoPc = "rpc"
    /\ pc[EchoProc] = "call"
    /\ RpcStart(EchoProc, ctxClient)
    /\ UNCHANGED <<callbacks, cbMu, ctxClient, connClosed, peerClosed, out,
                   inbox, userCtx, cancelAt, listenPc, listenMsg, echoPc,
                   echoTrigger, tickPc, closePc, echoOK, echoFail, panicked,
                   events>>

\* The caller's context is cancelled or times out while its call is running:
\* before the request is written, or while rpc waits for the response.
Cancel(p) ==
    /\ Running
    /\ p \in Users
    /\ pc[p] \in {"addCallback", "send", "wait"}
    /\ ~userCtx[p]
    /\ events < MaxEvents
    /\ events' = events + 1
    /\ userCtx' = [userCtx EXCEPT ![p] = TRUE]
    /\ cancelAt' = [cancelAt EXCEPT ![p] =
                       IF pc[p] = "wait" THEN "wait" ELSE "sending"]
    /\ UNCHANGED <<rpcID, callbacks, cbMu, chans, ctxClient, connClosed,
                   peerClosed, out, inbox, pc, rid, ret, listenPc, listenMsg,
                   echoPc, echoTrigger, tickPc, closePc, echoOK, echoFail,
                   panicked>>

addCallback_skip(p) ==
    /\ pc' = [pc EXCEPT ![p] = "send"]
    /\ UNCHANGED <<callbacks, panicked>>

\* addCallback: panics when the id is registered already.
addCallback(p) ==
    IF rid[p] \in DOMAIN callbacks
    THEN /\ panicked' = "dupCallback"
         /\ UNCHANGED <<callbacks, pc>>
    ELSE /\ callbacks' = [i \in DOMAIN callbacks \cup {rid[p]} |->
                             IF i = rid[p]
                             THEN [Ctx |-> p, Response |-> rid[p]]
                             ELSE callbacks[i]]
         /\ pc' = [pc EXCEPT ![p] = "send"]
         /\ UNCHANGED panicked

RpcAddCallback(p) ==
    /\ Running
    /\ pc[p] = "addCallback"
    /\ cbMu = "free"
    /\ addCallback(p)
    /\ UNCHANGED <<rpcID, cbMu, chans, ctxClient, connClosed, peerClosed,
                   out, inbox, rid, userCtx, cancelAt, ret, listenPc,
                   listenMsg, echoPc, echoTrigger, tickPc, closePc, echoOK,
                   echoFail, events>>

\* Conn.Send: refuses an empty id; the write fails on a stream the client
\* closed, and may fail on a stream the server closed.
RpcSend(p) ==
    /\ Running
    /\ pc[p] = "send"
    /\ IF rid[p] = ""
       THEN /\ ret' = [ret EXCEPT ![p] = "idErr"]
            /\ pc' = [pc EXCEPT ![p] = "defer"]
            /\ UNCHANGED out
       ELSE \/ /\ connClosed
               /\ ret' = [ret EXCEPT ![p] = "closedErr"]
               /\ pc' = [pc EXCEPT ![p] = "defer"]
               /\ UNCHANGED out
            \/ /\ ~connClosed
               /\ peerClosed
               /\ ret' = [ret EXCEPT ![p] = "sendErr"]
               /\ pc' = [pc EXCEPT ![p] = "defer"]
               /\ UNCHANGED out
            \/ /\ ~connClosed
               /\ out' = Append(out, [id |-> rid[p], method |-> Method(p),
                                      params |-> SendParams(Arg(p))])
               /\ pc' = [pc EXCEPT ![p] = "wait"]
               /\ UNCHANGED ret
    /\ UNCHANGED <<rpcID, callbacks, cbMu, chans, ctxClient, connClosed,
                   peerClosed, inbox, rid, userCtx, cancelAt, listenPc,
                   listenMsg, echoPc, echoTrigger, tickPc, closePc, echoOK,
                   echoFail, panicked, events>>

\* The second select of rpc: the context is done, a response is on the
\* channel, or the channel was closed without one.
RpcWait(p) ==
    /\ Running
    /\ pc[p] = "wait"
    /\ \/ /\ CtxDone(p)
          /\ ret' = [ret EXCEPT ![p] = "ctxErr"]
          /\ UNCHANGED chans
       \/ /\ rid[p] \in DOMAIN chans
          /\ chans[rid[p]].buf # <<>>
          /\ ret' = [ret EXCEPT ![p] =
                        Returned(p, rpcResult(Head(chans[rid[p]].buf)),
                                 Head(chans[rid[p]].buf))]
          /\ chans' = [chans EXCEPT ![rid[p]].buf = Tail(@)]
       \/ /\ rid[p] \in DOMAIN chans
          /\ chans[rid[p]].buf = <<>>
          /\ chans[rid[p]].closed
          /\ ret' = [ret EXCEPT ![p] = "ctxErr"]
          /\ UNCHANGED chans
    /\ pc' = [pc EXCEPT ![p] = "defer"]
    /\ UNCHANGED <<rpcID, callbacks, cbMu, ctxClient, connClosed, peerClosed,
                   out, inbox, rid, userCtx, cancelAt, listenPc, listenMsg,
                   echoPc, echoTrigger, tickPc, closePc, echoOK, echoFail,
                   panicked, events>>

DeferredCleanup_none(cbs, id) == cbs

\* The deferred function of rpc: delete(c.callbacks, req.ID) under cbMu.
DeferredCleanup(cbs, id) == Remove(cbs, id)

\* rpc returns: the deferred function runs, and the channel of the call is
\* garbage once no callback refers to it.
RpcDefer(p) ==
    /\ Running
    /\ pc[p] = "defer"
    /\ cbMu = "free"
    /\ callbacks' = DeferredCleanup(callbacks, rid[p])
    /\ chans' = IF rid[p] \in DOMAIN callbacks'
                THEN chans ELSE Remove(chans, rid[p])
    /\ pc' = [pc EXCEPT ![p] = "done"]
    /\ rid' = [rid EXCEPT ![p] = ""]
    /\ UNCHANGED <<rpcID, cbMu, ctxClient, connClosed, peerClosed, out,
                   inbox, userCtx, cancelAt, ret, listenPc, listenMsg,
                   echoPc, echoTrigger, tickPc, closePc, echoOK, echoFail,
                   panicked, events>>

\* ---- Client.listen --------------------------------------------------------
\* Response.Err
Err(m) == m.body = "error"

\* The rpcResponse that listen hands to doCallback.
Response(m) ==
    IF Err(m)
    THEN [Error |-> TRUE, Result |-> "", msgID |-> m.id]
    ELSE [Error |-> FALSE, Result |-> m.body, msgID |-> m.id]

\* Receive returns a message: an undecodable one is an error that is neither
\* EOF nor a closed connection, and the loop goes on; an echo goes to the
\* echo loop; anything else goes to doCallback(*res.ID, ...).
ListenReceive ==
    /\ Running
    /\ listenPc = "receive"
    /\ inbox # <<>>
    /\ inbox' = Tail(inbox)
    /\ LET m == Head(inbox) IN
       IF m.body = "garbage"
       THEN UNCHANGED <<listenPc, listenMsg, panicked>>
       ELSE IF m.method = "echo"
       THEN /\ listenPc' = "echoSignal"
            /\ listenMsg' = m
            /\ UNCHANGED panicked
       ELSE IF m.id = NilID
       THEN /\ panicked' = "nilDeref"
            /\ listenPc' = "panic"
            /\ listenMsg' = m
       ELSE /\ listenPc' = "doCallback"
            /\ listenMsg' = m
            /\ UNCHANGED panicked
    /\ UNCHANGED <<rpcID, callbacks, cbMu, chans, ctxClient, connClosed,
                   peerClosed, out, pc, rid, userCtx, cancelAt, ret, echoPc,
                   echoTrigger, tickPc, closePc, echoOK, echoFail, events>>

\* Receive returns io.EOF (the server closed the stream and all of it was
\* read) or "use of closed network connection" (the client closed it).
ListenStop ==
    /\ Running
    /\ listenPc = "receive"
    /\ connClosed \/ (peerClosed /\ inbox = <<>>)
    /\ listenPc' = "exit"
    /\ UNCHANGED <<rpcID, callbacks, cbMu, chans, ctxClient, connClosed,
                   peerClosed, out, inbox, pc, rid, userCtx, cancelAt, ret,
                   listenMsg, echoPc, echoTrigger, tickPc, closePc, echoOK,
                   echoFail, panicked, events>>

\* The echo loop takes a signal from echoC: it returns when the context is
\* cancelled, and calls Echo otherwise.
EchoLoopWake(m) ==
    /\ echoPc = "select"
    /\ echoTrigger' = m
    /\ IF ctxClient
       THEN /\ echoPc' = "exit"
            /\ UNCHANGED <<pc, ret, rid>>
       ELSE /\ echoPc' = "rpc"
            /\ pc' = [pc EXCEPT ![EchoProc] = "call"]
            /\ ret' = [ret EXCEPT ![EchoProc] = "none"]
            /\ rid' = [rid EXCEPT ![EchoProc] = ""]

\* listen's select on an echo: the send on echoC meets the echo loop.
ListenEchoSignal ==
    /\ Running
    /\ listenPc = "echoSignal"
    /\ EchoLoopWake(listenMsg)
    /\ listenPc' = "receive"
    /\ listenMsg' = NoMsg
    /\ UNCHANGED <<rpcID, callbacks, cbMu, chans, ctxClient, connClosed,
                   peerClosed, out, inbox, userCtx, cancelAt, tickPc, closePc, echoOK, echoFail, panicked, events>>

\* listen's select on an echo: the context is done.
ListenEchoCancelled ==
    /\ Running
    /\ listenPc = "echoSignal"
    /\ ctxClient
    /\ listenPc' = "receive"
    /\ listenMsg' = NoMsg
    /\ UNCHANGED <<rpcID, callbacks, cbMu, chans, ctxClient, connClosed,
                   peerClosed, out, inbox, pc, rid, userCtx, cancelAt, ret,
                   echoPc, echoTrigger, tickPc, closePc, echoOK,
                   echoFail, panicked, events>>

\* doCallback takes cbMu and looks the id up: nobody listening, return.
DoCallbackLookup ==
    /\ Running
    /\ listenPc = "doCallback"
    /\ cbMu = "free"
    /\ IF Deref(listenMsg.id) \in DOMAIN callbacks
       THEN /\ cbMu' = "listen"
            /\ listenPc' = "select"
            /\ UNCHANGED listenMsg
       ELSE /\ listenPc' = "receive"
            /\ listenMsg' = NoMsg
            /\ UNCHANGED cbMu
    /\ UNCHANGED <<rpcID, callbacks, chans, ctxClient, connClosed,
                   peerClosed, out, inbox, pc, rid, userCtx, cancelAt, ret,
                   echoPc, echoTrigger, tickPc, closePc, echoOK,
                   echoFail, panicked, events>>

DoCallbackReady_blocking(cb) ==
    \E p \in Procs : pc[p] = "wait" /\ rid[p] = cb.Response

\* doCallback's select can proceed: the context of the request is done, or
\* the response can be sent on the channel.
DoCallbackReady(cb) == CtxDone(cb.Ctx) \/ CanSend(cb.Response)

\* doCallback's select, then delete(c.callbacks, id), the deferred close of
\* the channel and the unlock.
DoCallbackSelect ==
    /\ Running
    /\ listenPc = "select"
    /\ LET id == Deref(listenMsg.id)
           cb == callbacks[id]
       IN  /\ DoCallbackReady(cb)
           /\ \/ /\ CtxDone(cb.Ctx)
                 /\ chans' = ChanClose(chans, cb.Response)
              \/ /\ CanSend(cb.Response)
                 /\ chans' = ChanClose(ChanSend(cb.Response,
                                                Response(listenMsg)),
                                       cb.Response)
           /\ callbacks' = Remove(callbacks, id)
    /\ cbMu' = "free"
    /\ listenPc' = "receive"
    /\ listenMsg' = NoMsg
    /\ UNCHANGED <<rpcID, ctxClient, connClosed, peerClosed, out, inbox, pc,
                   rid, userCtx, cancelAt, ret, echoPc, echoTrigger, tickPc,
                   closePc, echoOK, echoFail, panicked, events>>

\* ---- Client.echoLoop ------------------------------------------------------
\* The loop's select: the context is done.
EchoLoopStop ==
    /\ Running
    /\ echoPc = "select"
    /\ ctxClient
    /\ echoPc' = "exit"
    /\ UNCHANGED <<rpcID, callbacks, cbMu, chans, ctxClient, connClosed,
                   peerClosed, out, inbox, pc, rid, userCtx, cancelAt, ret,
                   listenPc, listenMsg, echoTrigger, tickPc, closePc, echoOK,
                   echoFail, panicked, events>>

\* Echo returned: a closed connection is not counted, any other error is a
\* failure, nil is a success.
EchoLoopCount ==
    /\ Running
    /\ echoPc = "rpc"
    /\ pc[EchoProc] = "done"
    /\ IF ret[EchoProc] = "ok"
       THEN /\ echoOK' = echoOK + 1
            /\ UNCHANGED echoFail
       ELSE IF isClosedNetwork(ret[EchoProc])
       THEN UNCHANGED <<echoOK, echoFail>>
       ELSE /\ echoFail' = echoFail + 1
            /\ UNCHANGED echoOK
    /\ echoPc' = "select"
    /\ pc' = [pc EXCEPT ![EchoProc] = "idle"]
    /\ ret' = [ret EXCEPT ![EchoProc] = "none"]
    /\ rid' = [rid EXCEPT ![EchoProc] = ""]
    /\ echoTrigger' = NoMsg
    /\ UNCHANGED <<rpcID, callbacks, cbMu, chans, ctxClient, connClosed,
                   peerClosed, out, inbox, userCtx, cancelAt, listenPc, listenMsg, tickPc, closePc,
                   panicked, events>>

\* ---- Client.echoTicker ----------------------------------------------------
\* The ticker fires and the context is not cancelled.
TickerTick ==
    /\ Running
    /\ tickPc = "wait"
    /\ ~ctxClient
    /\ events < MaxEvents
    /\ events' = events + 1
    /\ tickPc' = "signal"
    /\ UNCHANGED <<rpcID, callbacks, cbMu, chans, ctxClient, connClosed,
                   peerClosed, out, inbox, pc, rid, userCtx, cancelAt, ret,
                   listenPc, listenMsg, echoPc, echoTrigger, closePc, echoOK,
                   echoFail, panicked>>

\* Either select of the ticker: the context is done.
TickerStop ==
    /\ Running
    /\ tickPc \in {"wait", "signal"}
    /\ ctxClient
    /\ tickPc' = "exit"
    /\ UNCHANGED <<rpcID, callbacks, cbMu, chans, ctxClient, connClosed,
                   peerClosed, out, inbox, pc, rid, userCtx, cancelAt, ret,
                   listenPc, listenMsg, echoPc, echoTrigger, closePc, echoOK,
                   echoFail, panicked, events>>

\* The ticker's send on echoC meets the echo loop.
TickerSignal ==
    /\ Running
    /\ tickPc = "signal"
    /\ EchoLoopWake(TickMsg)
    /\ tickPc' = "wait"
    /\ UNCHANGED <<rpcID, callbacks, cbMu, chans, ctxClient, connClosed,
                   peerClosed, out, inbox, userCtx, cancelAt, listenPc,
                   listenMsg, closePc, echoOK, echoFail, panicked, events>>

\* ---- Client.Close ---------------------------------------------------------
TasksExited ==
    /\ listenPc = "exit"
    /\ echoPc = "exit"
    /\ tickPc \in {"none", "exit"}

\* c.cancel()
CloseCancel ==
    /\ Running
    /\ closePc = "idle"
    /\ events < MaxEvents
    /\ events' = events + 1
    /\ ctxClient' = TRUE
    /\ closePc' = "cancelled"
    /\ UNCHANGED <<rpcID, callbacks, cbMu, chans, connClosed, peerClosed,
                   out, inbox, pc, rid, userCtx, cancelAt, ret, listenPc,
                   listenMsg, echoPc, echoTrigger, tickPc, echoOK, echoFail,
                   panicked>>

\* c.c.Close()
CloseConn ==
    /\ Running
    /\ closePc = "cancelled"
    /\ connClosed' = TRUE
    /\ closePc' = "waiting"
    /\ UNCHANGED <<rpcID, callbacks, cbMu, chans, ctxClient, peerClosed, out,
                   inbox, pc, rid, userCtx, cancelAt, ret, listenPc,
                   listenMsg, echoPc, echoTrigger, tickPc, echoOK, echoFail,
                   panicked, events>>

\* c.wg.Wait() returns.
CloseWait ==
    /\ Running
    /\ closePc = "waiting"
    /\ TasksExited
    /\ closePc' = "returned"
    /\ UNCHANGED <<rpcID, callbacks, cbMu, chans, ctxClient, connClosed,
                   peerClosed, out, inbox, pc, rid, userCtx, cancelAt, ret,
                   listenPc, listenMsg, echoPc, echoTrigger, tickPc, echoOK,
                   echoFail, panicked, events>>

\* ---- the OVSDB server -----------------------------------------------------
ServerUp == ~peerClosed /\ ~connClosed

ServerWrite(m) ==
    /\ Running
    /\ ServerUp
    /\ events < MaxEvents
    /\ Len(inbox) < MaxInbox
    /\ inbox' = Append(inbox, m)
    /\ events' = events + 1
    /\ UNCHANGED <<rpcID, callbacks, cbMu, chans, ctxClient, connClosed,
                   peerClosed, out, pc, rid, userCtx, cancelAt, ret,
                   listenPc, listenMsg, echoPc, echoTrigger, tickPc, closePc,
                   echoOK, echoFail, panicked>>

\* What a response to a request carries: the list of databases, the params
\* of the request, a JSON-RPC error, or an OVSDB error inside the result.
ReplyBodies == {"dbs", "echoed", "error", "ovsdbError"}

\* The replies of a server to a request by its method: list_dbs is answered
\* with the databases or an error, echo with the params or something else.
RepliesTo(method) ==
    IF method = "echo" THEN {"echoed", "dbs", "error"}
    ELSE {"dbs", "error", "ovsdbError"}

\* A response to a request the server has read, perhaps not the first one.
ServerReply(i, b) ==
    /\ i \in 1..Len(out)
    /\ b \in RepliesTo(out[i].method)
    /\ ServerWrite([id |-> strPtr(out[i].id), method |-> "", params |-> "",
                    body |-> b])

\* A response whose id no request had.
ServerStale ==
    ServerWrite([id |-> strPtr("foo"), method |-> "", params |-> "",
                 body |-> "dbs"])

\* The echo request of ovsdb-server.
ServerEcho ==
    ServerWrite([id |-> strPtr("echo"), method |-> "echo", params |-> "[]",
                 body |-> "none"])

\* A notification: a method and a null id.
ServerNotify ==
    ServerWrite([id |-> NilID, method |-> "update", params |-> "[]",
                 body |-> "none"])

\* Bytes that do not decode into a Response.
ServerGarbage ==
    ServerWrite([id |-> NilID, method |-> "", params |-> "",
                 body |-> "garbage"])

ServerClose ==
    /\ Running
    /\ ServerUp
    /\ events < MaxEvents
    /\ events' = events + 1
    /\ peerClosed' = TRUE
    /\ UNCHANGED <<rpcID, callbacks, cbMu, chans, ctxClient, connClosed, out,
                   inbox, pc, rid, userCtx, cancelAt, ret, listenPc,
                   listenMsg, echoPc, echoTrigger, tickPc, closePc, echoOK,
                   echoFail, panicked>>

\* ---- specification --------------------------------------------------------
Next ==
    \/ (\E p \in Users, cancelled \in BOOLEAN : UserCall(p, cancelled)) /\ UNCHANGED ovsVars
    \/ (\E p \in Users : Cancel(p)) /\ UNCHANGED ovsVars
    \/ (EchoRpcBegin) /\ UNCHANGED ovsVars
    \/ (\E p \in Procs : RpcAddCallback(p)) /\ UNCHANGED ovsVars
    \/ (\E p \in Procs : RpcSend(p)) /\ UNCHANGED ovsVars
    \/ (\E p \in Procs : RpcWait(p)) /\ UNCHANGED ovsVars
    \/ (\E p \in Procs : RpcDefer(p)) /\ UNCHANGED ovsVars
    \/ (ListenReceive) /\ UNCHANGED ovsVars
    \/ (ListenStop) /\ UNCHANGED ovsVars
    \/ (ListenEchoSignal) /\ UNCHANGED ovsVars
    \/ (ListenEchoCancelled) /\ UNCHANGED ovsVars
    \/ (DoCallbackLookup) /\ UNCHANGED ovsVars
    \/ (DoCallbackSelect) /\ UNCHANGED ovsVars
    \/ (EchoLoopStop) /\ UNCHANGED ovsVars
    \/ (EchoLoopCount) /\ UNCHANGED ovsVars
    \/ (TickerTick) /\ UNCHANGED ovsVars
    \/ (TickerStop) /\ UNCHANGED ovsVars
    \/ (TickerSignal) /\ UNCHANGED ovsVars
    \/ (CloseCancel) /\ UNCHANGED ovsVars
    \/ (CloseConn) /\ UNCHANGED ovsVars
    \/ (CloseWait) /\ UNCHANGED ovsVars
    \/ (\E i \in 1..MaxEvents, b \in ReplyBodies : ServerReply(i, b)) /\ UNCHANGED ovsVars
    \/ (ServerStale) /\ UNCHANGED ovsVars
    \/ (ServerEcho) /\ UNCHANGED ovsVars
    \/ (ServerNotify) /\ UNCHANGED ovsVars
    \/ (ServerGarbage) /\ UNCHANGED ovsVars
    \/ (ServerClose) /\ UNCHANGED ovsVars

\* The client at rest, while the library runs.
ClientAtRest == ClientInit /\ tickPc = "none"

\* The client alone: the libraries of the other packages stay at rest.
Init == ClientInit /\ OvsIdle

Spec == Init /\ [][Next]_allVars

\* ---- properties -----------------------------------------------------------
InRpc(p) == pc[p] \in {"addCallback", "send", "wait", "defer"}

\* C1: whenever no RPC is in progress (every RPC that was started has
\* returned, by whatever outcome), the callback map is empty.
C1_NoCallbackLeak ==
    (\A p \in Procs : pc[p] \in {"idle", "done"}) => StatsCallbacksCurrent = 0

\* Two RPCs have returned, one cancelled while it waited and one with a
\* result, and nothing is in progress.
C1_Witness ==
    /\ \A p \in Procs : pc[p] \in {"idle", "done"}
    /\ rpcID = 2
    /\ ret["u1"] = "ctxErr" /\ cancelAt["u1"] = "wait"
    /\ ret["u2"] = "ok"
    /\ StatsCallbacksCurrent = 0

\* C2: once Close has returned, Stats reports no callback, whatever RPCs
\* were in flight: here at a moment when no caller is between two steps
\* (each has returned or waits for its response).
C2_NoCallbacksAfterClose ==
    (closePc = "returned" /\ \A p \in Procs : pc[p] \in {"idle", "wait", "done"})
    => StatsCallbacksCurrent = 0

\* C3: whenever the dispatcher stands at the select of doCallback, the select
\* can proceed at once, whatever the caller is doing; so a caller that was
\* cancelled and stopped waiting never holds up the receive loop.
C3_DispatchNeverWaits ==
    listenPc = "select" => DoCallbackReady(callbacks[Deref(listenMsg.id)])

\* The dispatcher is delivering to a caller that was cancelled and has left
\* its select, its callback still registered.
C3_Witness ==
    /\ listenPc = "select"
    /\ LET cb == callbacks[Deref(listenMsg.id)] IN
          /\ cb.Ctx \in Users
          /\ userCtx[cb.Ctx]
          /\ pc[cb.Ctx] = "defer"
          /\ rid[cb.Ctx] = cb.Response

\* C4: a message that is no echo and has no registered callback, a null id
\* included, is dropped and the receive loop does not fail.
C4_DroppedSilently == listenPc # "panic"

\* C5: what the echo loop writes after an echo notification carries the id
\* and the params of that notification.
C5_EchoReflected ==
    \A i \in 1..Len(out) :
        (/\ echoPc = "rpc"
         /\ echoTrigger.method = "echo"
         /\ out[i].id = rid[EchoProc])
        => /\ strPtr(out[i].id) = echoTrigger.id
           /\ out[i].params = echoTrigger.params

\* The echo loop can reach its next iteration without the receive loop: it
\* is at its select, or its Echo call can return.
EchoLoopCanServe ==
    \/ echoPc = "select"
    \/ /\ echoPc = "rpc"
       /\ \/ pc[EchoProc] # "wait"
          \/ chans[rid[EchoProc]].buf # <<>>
          \/ chans[rid[EchoProc]].closed

\* C6: an echo notification received while the client is open gets its echo
\* from the next iteration of the echo loop: the loop can get there.
C6_EchoPerNotification ==
    (listenPc = "echoSignal" /\ ~ctxClient) => EchoLoopCanServe

\* The steps of the three tasks and of Close.
TaskNext ==
    \/ ListenReceive \/ ListenStop \/ ListenEchoSignal \/ ListenEchoCancelled
    \/ DoCallbackLookup \/ DoCallbackSelect
    \/ EchoLoopStop \/ EchoLoopCount \/ EchoRpcBegin
    \/ RpcAddCallback(EchoProc) \/ RpcSend(EchoProc) \/ RpcWait(EchoProc)
    \/ RpcDefer(EchoProc)
    \/ TickerStop \/ TickerSignal
    \/ CloseConn \/ CloseWait

\* C7: once Close is called, the tasks and Close keep moving until Close has
\* returned: no state has Close pending and none of them able to step.
C7_CloseTerminates ==
    closePc \in {"cancelled", "waiting"} => ENABLED TaskNext

\* C8: the ids of the RPCs in progress differ, every request written has an
\* id of its own, and addCallback never finds its id registered.
C8_UniqueRequestIDs ==
    /\ panicked # "dupCallback"
    /\ \A p, q \in Procs : (p # q /\ InRpc(p) /\ InRpc(q)) => rid[p] # rid[q]
    /\ \A i, j \in 1..Len(out) : i # j => out[i].id # out[j].id
    /\ \A p \in Procs, i \in 1..Len(out) :
          (pc[p] \in {"addCallback", "send"}) => out[i].id # rid[p]

\* Two users and the echo loop have an RPC in progress at once.
C8_Witness ==
    /\ \A p \in Procs : pc[p] = "wait"
    /\ Len(out) = 3

\* C9: a request is written only with its callback registered, and no
\* response to it is dispatched before the registration.
C9_RegisteredBeforeSend ==
    \A p \in Procs :
        /\ pc[p] = "send" => rid[p] \in DOMAIN callbacks
        /\ pc[p] = "addCallback" =>
              ~(listenPc \in {"doCallback", "select"}
                /\ listenMsg.id = strPtr(rid[p]))

\* A response to a request whose caller waits is on the stream, and the
\* callback is registered.
C9_Witness ==
    \E p \in Procs :
        /\ pc[p] = "wait"
        /\ rid[p] \in DOMAIN callbacks
        /\ \E i \in 1..Len(inbox) : inbox[i].id = strPtr(rid[p])

\* C10, as claimed: a call whose context was cancelled before it started or
\* while it waited returns ctx.Err().
C10_OnlyCtxErr ==
    \A p \in Users :
        (pc[p] = "done" /\ cancelAt[p] \in {"before", "wait"})
        => ret[p] = "ctxErr"

\* C10, amended: cancelled before the call, rpc returns ctx.Err() and issues
\* no id; cancelled while it waited, rpc returns ctx.Err() or the outcome of
\* a response that was delivered, never a transport or an input error.
C10_CtxErrOrDelivered ==
    \A p \in Users :
        pc[p] \in {"defer", "done"} =>
            /\ cancelAt[p] = "before" => (ret[p] = "ctxErr" /\ pc[p] = "done")
            /\ cancelAt[p] = "wait" =>
                  ret[p] \in {"ctxErr", "ok", "rpcErr", "ovsdbErr"}

\* One call was cancelled before it started, another while it waited, and
\* both returned ctx.Err().
C10_Witness ==
    /\ pc["u1"] = "done" /\ cancelAt["u1"] = "before" /\ ret["u1"] = "ctxErr"
    /\ pc["u2"] = "done" /\ cancelAt["u2"] = "wait" /\ ret["u2"] = "ctxErr"

\* C24: while the client is open the receive loop is never held in a circular
\* wait: it does not stand at the send on echoC while the echo loop waits, in
\* its own Echo call, for a response that no one has delivered.
C24_NoCircularWait ==
    ~(/\ ~ctxClient
      /\ listenPc = "echoSignal"
      /\ echoPc = "rpc"
      /\ pc[EchoProc] = "wait"
      /\ chans[rid[EchoProc]].buf = <<>>
      /\ ~chans[rid[EchoProc]].closed)

\* C25: once Close has returned no caller is left blocked in rpc: none waits,
\* its context not cancelled, on a channel that is empty and open.
C25_NoCallerBlockedAfterClose ==
    closePc = "returned" =>
        \A p \in Users :
            ~(/\ pc[p] = "wait"
              /\ ~userCtx[p]
              /\ chans[rid[p]].buf = <<>>
              /\ ~chans[rid[p]].closed)

\* C26: a caller only ever finds on its channel a response that carries the
\* id of its own request: the callback registered under an id belongs to the
\* call that has this id, and every response on the channel made for an id
\* has that id.
C26_DeliveredToOwnID ==
    /\ \A id \in DOMAIN callbacks :
          /\ callbacks[id].Response = id
          /\ pc[callbacks[id].Ctx] \in {"send", "wait", "defer"}
          /\ rid[callbacks[id].Ctx] = id
    /\ \A id \in DOMAIN chans :
          \A i \in 1..Len(chans[id].buf) : chans[id].buf[i].msgID = strPtr(id)

\* Two calls wait; the response to the second request was delivered first.
C26_Witness ==
    /\ pc["u1"] = "wait" /\ pc["u2"] = "wait"
    /\ \E p, q \in Users :
          /\ rid[p] = "1" /\ rid[q] = "2"
          /\ chans["1"].buf = <<>> /\ ~chans["1"].closed
          /\ Len(chans["2"].buf) = 1
          /\ chans["2"].buf[1].msgID = strPtr("2")

\* C27: the channel of a registered callback is open and empty, so the
\* select of the dispatcher never sends on a closed or a full channel and
\* never closes a channel twice; a channel holds at most one response, and
\* only when it has been closed after the send.
C27_AtMostOneDelivery ==
    /\ \A id \in DOMAIN callbacks :
          /\ callbacks[id].Response \in DOMAIN chans
          /\ ~chans[callbacks[id].Response].closed
          /\ chans[callbacks[id].Response].buf = <<>>
    /\ \A id \in DOMAIN chans :
          /\ Len(chans[id].buf) <= 1
          /\ chans[id].buf # <<>> => chans[id].closed

\* A second response with the id of a request arrives at the dispatcher when
\* the first one was delivered and the channel closed: it finds no callback.
C27_Witness ==
    /\ listenPc = "doCallback"
    /\ LET id == Deref(listenMsg.id) IN
          /\ id \notin DOMAIN callbacks
          /\ id \in DOMAIN chans
          /\ chans[id].closed
          /\ Len(chans[id].buf) = 1

\* ==== package ovs: PortRange.BitwiseMatch =================================
\* Width of a transport port in the model, in bits.
PortBits == 4
MaxPort == 2^PortBits - 1
Ports == 0..MaxPort

\* a & b on non-negative integers.
RECURSIVE BitAnd(_, _)
BitAnd(a, b) ==
    IF a = 0 \/ b = 0 THEN 0
    ELSE (a % 2) * (b % 2) + 2 * BitAnd(a \div 2, b \div 2)

\* ~((1 << k) - 1) in the width of a port.
PrefixMask(k) == MaxPort - (2^k - 1)

Aligned_unbounded(cur, k, end) == cur % (2^k) = 0

\* cur is 2^k-aligned and the block of 2^k ports from cur ends within the range.
Aligned(cur, k, end) == cur % (2^k) = 0 /\ cur + 2^k - 1 <= end

LargestBlock_single(cur, end) == 0

\* The largest k such that Aligned(cur, k, end).
LargestBlock(cur, end) ==
    CHOOSE k \in 0..PortBits :
        /\ Aligned(cur, k, end)
        /\ \A j \in 0..PortBits : Aligned(cur, j, end) => j <= k

\* The bit-range cover of [cur, end], ascending by value.
RECURSIVE decompose(_, _)
decompose(cur, end) ==
    IF cur > end THEN <<>>
    ELSE LET k == LargestBlock(cur, end)
         IN  <<[Value |-> cur, Mask |-> PrefixMask(k)]>> \o decompose(cur + 2^k, end)

ValidPortRange(r) == 1 <= r.Start /\ r.Start <= r.End /\ r.End <= MaxPort

BitwiseMatch(r) ==
    IF ~ValidPortRange(r) THEN [b |-> <<>>, err |-> "ErrInvalidPortRange"]
    ELSE [b |-> decompose(r.Start, r.End), err |-> "nil"]

\* The ports that a BitRange matches: p & Mask == Value.
Matched(c) == {p \in Ports : BitAnd(p, c.Mask) = c.Value}

\* Every BitRange that matches some port, and those with a prefix mask.
BitRanges == {c \in [Value : Ports, Mask : Ports] : BitAnd(c.Value, c.Mask) = c.Value}
PrefixBitRanges == {c \in BitRanges : \E k \in 0..PortBits : c.Mask = PrefixMask(k)}

Min(S) == CHOOSE x \in S : \A y \in S : x <= y

\* Some list of at most k BitRanges of cands matches exactly the ports of
\* within, todo being the ports not matched yet: one of its BitRanges has to
\* match the lowest port of todo.
RECURSIVE CoverExists(_, _, _, _)
CoverExists(cands, within, todo, k) ==
    \/ todo = {}
    \/ /\ k > 0
       /\ \E c \in cands :
            /\ Min(todo) \in Matched(c)
            /\ Matched(c) \subseteq within
            /\ CoverExists(cands, within, todo \ Matched(c), k - 1)

\* What the actions of this component leave alone.
PortRangeFrame ==
    <<vars, parserVars, flowVars, matchFlowVars, bundleVars, netlinkVars, nlClientVars,
      connVars, actionTokenVars, intMatchVars, ctLimitsVars>>

PortRangeInit ==
    /\ ClientAtRest /\ ParserIdle /\ FlowIdle /\ MatchFlowIdle /\ BundleIdle
    /\ NetlinkIdle /\ NlClientIdle /\ ConnIdle /\ ActionTokenIdle /\ IntMatchIdle
    /\ CTLimitsIdle
    /\ prRange \in [Start : 0..(MaxPort + 1), End : 0..(MaxPort + 1)]
    /\ prResult = NotCalled

CallBitwiseMatch ==
    /\ prResult = NotCalled
    /\ prResult' = BitwiseMatch(prRange)
    /\ UNCHANGED prRange
    /\ UNCHANGED PortRangeFrame


PortRangeNext == CallBitwiseMatch

PortRangeSpec == PortRangeInit /\ [][PortRangeNext]_allVars

PortRangeOf(r) == r.Start..r.End

\* C11: for every range with 1 <= start <= end <= the highest port, the
\* decomposition succeeds and the ports matched by some returned pair are
\* exactly the ports from start to end.
C11_ExactCover ==
    (prResult # NotCalled /\ ValidPortRange(prRange)) =>
        /\ prResult.err = "nil"
        /\ UNION {Matched(prResult.b[i]) : i \in 1..Len(prResult.b)} = PortRangeOf(prRange)

C11_Witness ==
    /\ prResult.err = "nil"
    /\ prRange.Start = 3 /\ prRange.End = MaxPort
    /\ Len(prResult.b) = 3

\* C12 as claimed: no shorter list of value/mask pairs, whatever their masks,
\* matches exactly the range.
C12_MinimumLength ==
    prResult.err = "nil" =>
        ~CoverExists(BitRanges, PortRangeOf(prRange), PortRangeOf(prRange),
                     Len(prResult.b) - 1)

\* C12: no shorter list of pairs with prefix masks (aligned blocks of a power
\* of two of ports) matches exactly the range.
C12_MinimumPrefixLength ==
    prResult.err = "nil" =>
        ~CoverExists(PrefixBitRanges, PortRangeOf(prRange), PortRangeOf(prRange),
                     Len(prResult.b) - 1)

C12_Witness ==
    /\ prResult.err = "nil"
    /\ prRange.Start = 1 /\ prRange.End = MaxPort - 1
    /\ Len(prResult.b) = 2 * (PortBits - 1)

\* ==== package ovs: actionParser ==========================================
\* A text is a sequence of lexemes: a delimiter rune, or a run of other
\* runes.  NUL is the rune 0, which read() also returns at the end of input.
MaxTextLen == 6
NUL == "NUL"
Lexemes == {"drop", "ct", ",", "(", ")", NUL}

RECURSIVE TextsUpTo(_)
TextsUpTo(n) ==
    IF n = 0 THEN {<<>>}
    ELSE LET shorter == TextsUpTo(n - 1)
         IN  shorter \cup {Append(t, l) : t \in {u \in shorter : Len(u) = n - 1}, l \in Lexemes}

\* strings.ToLower on a lexeme.
ToLower(w) ==
    CASE w = "LOCAL" -> "local"
      [] w = "NORMAL" -> "normal"
      [] w = "DROP" -> "drop"
      [] OTHER -> w

Numbers == 0..10

\* strconv.Atoi on a lexeme: the lexemes it accepts, and its value.
IsDecimal(w) == \E n \in Numbers : FormatInt(n) = w
Atoi(w) == CHOOSE n \in Numbers : FormatInt(n) = w

Max(S) == CHOOSE x \in S : \A y \in S : x >= y

\* The Action values: a kind and its arguments.
Act(kind, args) == [kind |-> kind, args |-> args]
NoAction == Act("nil", <<>>)
Keywords == {"drop", "flood", "in_port", "local", "normal", "strip_vlan", "dec_ttl", "ct_clear"}

\* ctRe = ct\((\S+)\): the leftmost match, its group as long as possible.
ctReStarts(s) ==
    {i \in 1..Len(s) : /\ s[i] = "ct" /\ i + 3 <= Len(s) /\ s[i + 1] = "("
                       /\ \E j \in (i + 3)..Len(s) : s[j] = ")"}
ctReGroup(s) ==
    LET i == Min(ctReStarts(s))
        j == Max({k \in (i + 3)..Len(s) : s[k] = ")"})
    IN  SubSeq(s, i + 2, j - 1)

\* resubmitRe = resubmit\((\d*),(\d*)\): port and table, "" when absent.
resubmitReMatches(s) ==
    {m \in [i : 1..Len(s), port : {""} \cup {FormatInt(n) : n \in Numbers},
            table : {""} \cup {FormatInt(n) : n \in Numbers}] :
        LET body == <<"resubmit", "(">>
                    \o (IF m.port = "" THEN <<>> ELSE <<m.port>>) \o <<",">>
                    \o (IF m.table = "" THEN <<>> ELSE <<m.table>>) \o <<")">>
        IN  /\ m.i + Len(body) - 1 <= Len(s)
            /\ SubSeq(s, m.i, m.i + Len(body) - 1) = body}

HasPrefix(s, prefix) == Len(s) >= Len(prefix) /\ SubSeq(s, 1, Len(prefix)) = prefix

\* parseAction(s): the recognizers, in the order of the source, of the
\* constant actions, ct, mod_vlan_vid, conjunction, output and resubmit.
parseAction(s) ==
    IF Len(s) = 1 /\ ToLower(s[1]) \in Keywords
        THEN [act |-> Act(ToLower(s[1]), <<>>), err |-> "nil"]
    ELSE IF ctReStarts(s) # {}
        THEN [act |-> Act("ct", <<ctReGroup(s)>>), err |-> "nil"]
    ELSE IF HasPrefix(s, <<"mod_vlan_vid", ":">>)
        THEN IF Len(s) >= 3 /\ IsDecimal(s[3])
             THEN [act |-> Act("mod_vlan_vid", <<Atoi(s[3])>>), err |-> "nil"]
             ELSE [act |-> NoAction, err |-> "Sscanf"]
    ELSE IF HasPrefix(s, <<"conjunction">>)
        THEN IF /\ Len(s) >= 8 /\ s[2] = "(" /\ IsDecimal(s[3]) /\ s[4] = ","
                /\ IsDecimal(s[5]) /\ s[6] = "/" /\ IsDecimal(s[7]) /\ s[8] = ")"
             THEN [act |-> Act("conjunction", <<Atoi(s[3]), Atoi(s[5]), Atoi(s[7])>>),
                   err |-> "nil"]
             ELSE [act |-> NoAction, err |-> "Sscanf"]
    ELSE IF HasPrefix(s, <<"output", ":">>)
        THEN IF Len(s) >= 3 /\ IsDecimal(s[3])
             THEN [act |-> Act("output", <<Atoi(s[3])>>), err |-> "nil"]
             ELSE [act |-> NoAction, err |-> "Sscanf"]
    ELSE IF resubmitReMatches(s) # {}
        THEN LET first == Min({m.i : m \in resubmitReMatches(s)})
                 m == CHOOSE x \in resubmitReMatches(s) : x.i = first
             IN  [act |-> Act("resubmit",
                              <<IF m.port = "" THEN 0 ELSE Atoi(m.port),
                                IF m.table = "" THEN 0 ELSE Atoi(m.table)>>),
                  err |-> "nil"]
    ELSE [act |-> NoAction, err |-> "no action matched"]

AtTopLevel_always(depth) == TRUE

\* p.s.len() == 0
AtTopLevel(depth) == depth = 0

\* The loop of actionParser.parseAction from rune pos on: how it ends, the
\* next rune to read, the length of the stack and the buffer.  stack.pop on
\* an empty stack slices (*s)[:-1], which panics.
RECURSIVE readAction(_, _, _, _)
readAction(text, pos, depth, buf) ==
    IF pos > Len(text) \/ text[pos] = NUL
        THEN [end |-> "eof", pos |-> pos + 1, depth |-> depth, buf |-> buf]
    ELSE IF text[pos] = "," /\ AtTopLevel(depth)
        THEN [end |-> "comma", pos |-> pos + 1, depth |-> depth, buf |-> buf]
    ELSE IF text[pos] = ")" /\ depth = 0
        THEN [end |-> "panic", pos |-> pos, depth |-> depth, buf |-> buf]
    ELSE readAction(text, pos + 1,
                    IF text[pos] = "(" THEN depth + 1
                    ELSE IF text[pos] = ")" THEN depth - 1 ELSE depth,
                    Append(buf, text[pos]))

\* actionParser.parseAction: (Action, raw, err) and the parser after it.
actionParser_parseAction(text, pos, depth) ==
    LET r == readAction(text, pos, depth, <<>>)
        none == [act |-> NoAction, raw |-> <<>>, pos |-> r.pos, depth |-> r.depth]
    IN  IF r.end = "panic" THEN none @@ [err |-> "panic"]
        ELSE IF r.end = "eof" /\ r.buf = <<>> THEN none @@ [err |-> "io.EOF"]
        ELSE IF r.depth > 0 THEN none @@ [err |-> "invalid action"]
        ELSE LET a == parseAction(r.buf)
             IN  [act |-> a.act, raw |-> r.buf, err |-> a.err,
                  pos |-> r.pos, depth |-> r.depth]

\* actionParser.Parse: the actions and their raw texts, or the first error.
RECURSIVE ParseFrom(_, _, _, _, _)
ParseFrom(text, pos, depth, actions, raw) ==
    LET a == actionParser_parseAction(text, pos, depth)
    IN  IF a.err = "io.EOF" THEN [actions |-> actions, raw |-> raw, err |-> "nil"]
        ELSE IF a.err # "nil" THEN [actions |-> <<>>, raw |-> <<>>, err |-> a.err]
        ELSE ParseFrom(text, a.pos, a.depth, Append(actions, a.act), Append(raw, a.raw))

Parse(text) == ParseFrom(text, 1, 0, <<>>, <<>>)

\* What the actions of this component leave alone.
ParserFrame ==
    <<vars, portVars, flowVars, matchFlowVars, bundleVars, netlinkVars, nlClientVars,
      connVars, actionTokenVars, intMatchVars, ctLimitsVars>>

ParserInit ==
    /\ ClientAtRest /\ PortRangeIdle /\ FlowIdle /\ MatchFlowIdle /\ BundleIdle
    /\ NetlinkIdle /\ NlClientIdle /\ ConnIdle /\ ActionTokenIdle /\ IntMatchIdle
    /\ CTLimitsIdle
    /\ apInput \in TextsUpTo(MaxTextLen)
    /\ apResult = NotParsed

CallParse ==
    /\ apResult = NotParsed
    /\ apResult' = Parse(apInput)
    /\ UNCHANGED apInput
    /\ UNCHANGED ParserFrame

ParserNext == CallParse

ParserSpec == ParserInit /\ [][ParserNext]_allVars

\* Nesting depth after the first n runes of text.
Depth(text, n) ==
    Cardinality({i \in 1..n : text[i] = "("}) - Cardinality({i \in 1..n : text[i] = ")"})

Balanced(text) ==
    /\ \A n \in 1..Len(text) : Depth(text, n) >= 0
    /\ Depth(text, Len(text)) = 0

TopLevelCommas(text) == {i \in 1..Len(text) : text[i] = "," /\ Depth(text, i) = 0}

\* The pieces of text between its commas at nesting depth 0.
RECURSIVE TopLevelTokens(_, _)
TopLevelTokens(text, from) ==
    LET later == {c \in TopLevelCommas(text) : c >= from}
    IN  IF later = {} THEN <<SubSeq(text, from, Len(text))>>
        ELSE <<SubSeq(text, from, Min(later) - 1)>> \o TopLevelTokens(text, Min(later) + 1)

RECURSIVE Join(_)
Join(tokens) ==
    IF tokens = <<>> THEN <<>>
    ELSE IF Len(tokens) = 1 THEN tokens[1]
    ELSE tokens[1] \o <<",">> \o Join(Tail(tokens))

HasNUL(text) == \E i \in 1..Len(text) : text[i] = NUL

\* C15: Parse returns normally, and with an error when the parentheses of
\* the text are unmatched (here for a text without the rune 0; the error of
\* an earlier token counts as well).
C15_UnmatchedRejected ==
    (apResult # NotParsed /\ ~HasNUL(apInput)) =>
        /\ apResult.err # "panic"
        /\ ~Balanced(apInput) => apResult.err # "nil"

\* C16 as claimed: for a text with balanced parentheses that Parse accepts
\* (here one without the rune 0), no returned token has a comma at depth 0,
\* and the tokens joined with commas are the text.
C16_SplitAtTopLevelCommas ==
    (apResult.err = "nil" /\ Balanced(apInput) /\ ~HasNUL(apInput)) =>
        /\ \A i \in 1..Len(apResult.raw) : TopLevelCommas(apResult.raw[i]) = {}
        /\ Join(apResult.raw) = apInput

\* The tokens that Parse is to return: the pieces between the commas at
\* depth 0, without the last one when it is empty.
ExpectedTokens(text) ==
    LET all == TopLevelTokens(text, 1)
    IN  IF all[Len(all)] = <<>> THEN SubSeq(all, 1, Len(all) - 1) ELSE all

\* C16: for a text with balanced parentheses and without the rune 0, Parse
\* ends a token exactly at each comma at depth 0 and at the end of the text,
\* and drops an empty last token (empty text, or a trailing comma): it
\* returns these tokens when each of them is an action, an error otherwise.
C16_TokensAreTopLevelPieces ==
    (apResult # NotParsed /\ Balanced(apInput) /\ ~HasNUL(apInput)) =>
        LET want == ExpectedTokens(apInput)
        IN  IF \A i \in 1..Len(want) : parseAction(want[i]).err = "nil"
            THEN apResult.err = "nil" /\ apResult.raw = want
            ELSE apResult.err \notin {"nil", "panic"}

C16_Witness ==
    /\ apInput = <<"drop", ",", "ct", "(", ",", ")">>
    /\ apResult.err = "nil"
    /\ apResult.raw = <<<<"drop">>, <<"ct", "(", ",", ")">>>>

\* ==== package ovs: Flow.MarshalText and Flow.UnmarshalText ================
MaxActions == 2

\* The port LOCAL, 0xfffffffe, as a 32-bit pattern with sign.
PortLOCAL == 0 - 2

HexDigits == <<"0", "1", "2", "3", "4", "5", "6", "7", "8", "9",
               "a", "b", "c", "d", "e", "f">>

\* fmt "%x" and "%0<width>x".
RECURSIVE Hex(_)
Hex(n) ==
    IF n < 16 THEN HexDigits[n + 1]
    ELSE Hex(n \div 16) \o HexDigits[(n % 16) + 1]

RECURSIVE HexPad(_, _)
HexPad(n, width) ==
    IF width = 0 THEN ""
    ELSE HexPad(n \div 16, width - 1) \o HexDigits[(n % 16) + 1]

\* The actions and matches that the flows of the model are made of.
ActionUniverse ==
    {Act("drop", <<>>), Act("local", <<>>), Act("all", <<>>),
     Act("output", <<1>>), Act("mod_vlan_vid", <<10>>), Act("resubmit", <<0, 1>>),
     Act("ct", <<<<"commit">>>>), Act("set_tunnel", <<10>>)}

Mt(key, value) == [key |-> key, value |-> value]
MatchUniverse == {Mt("tp_dst", 8)}

RECURSIVE SeqsUpTo(_, _)
SeqsUpTo(S, n) ==
    IF n = 0 THEN {<<>>}
    ELSE LET shorter == SeqsUpTo(S, n - 1)
         IN  shorter \cup {Append(t, x) : t \in {u \in shorter : Len(u) = n - 1}, x \in S}

Priorities == {0, 10}
Cookies == {0, 10}
Tables == {0, 1}
InPorts == {0, 1, PortLOCAL}

Flows ==
    [Priority : Priorities, InPort : InPorts, Matches : SeqsUpTo(MatchUniverse, 1),
     Table : Tables, Cookie : Cookies, Actions : SeqsUpTo(ActionUniverse, MaxActions)]

\* Action.MarshalText: the text of an action.
ActionText(a) ==
    CASE a.kind = "output" -> <<"output", ":", FormatInt(a.args[1])>>
      [] a.kind = "mod_vlan_vid" -> <<"mod_vlan_vid", ":", FormatInt(a.args[1])>>
      [] a.kind = "resubmit" ->
            <<"resubmit", "(">>
            \o (IF a.args[1] = 0 THEN <<>> ELSE <<FormatInt(a.args[1])>>) \o <<",">>
            \o (IF a.args[2] = 0 THEN <<>> ELSE <<FormatInt(a.args[2])>>) \o <<")">>
      [] a.kind = "ct" -> <<"ct", "(">> \o a.args[1] \o <<")">>
      [] a.kind = "set_tunnel" -> <<"set_tunnel", ":", "0x" \o Hex(a.args[1])>>
      [] OTHER -> <<a.kind>>

\* Match.MarshalText: the text of a match.
MatchText(m) == <<m.key, "=", FormatInt(m.value)>>

HasDrop_never(actions) == FALSE

\* Some action of the list is drop.
HasDrop(actions) == \E i \in 1..Len(actions) : actions[i] = Act("drop", <<>>)

\* Flow.marshalActions: the texts of the actions, or why there are none.
marshalActions(f) ==
    IF Len(f.Actions) = 0 THEN [texts |-> <<>>, err |-> "errNoActions"]
    ELSE IF Len(f.Actions) > 1 /\ HasDrop(f.Actions)
        THEN [texts |-> <<>>, err |-> "errActionsWithDrop"]
    ELSE [texts |-> [i \in 1..Len(f.Actions) |-> ActionText(f.Actions[i])], err |-> "nil"]

\* Flow.MarshalText: the tokens of the line, in their fixed order.
MarshalText(f) ==
    LET a == marshalActions(f)
        tokens ==
            <<<<"priority", "=", FormatInt(f.Priority)>>>>
            \o (IF f.InPort = 0 THEN <<>>
                ELSE <<<<"in_port", "=",
                         IF f.InPort = PortLOCAL THEN "LOCAL" ELSE FormatInt(f.InPort)>>>>)
            \o [i \in 1..Len(f.Matches) |-> MatchText(f.Matches[i])]
            \o <<<<"table", "=", FormatInt(f.Table)>>>>
            \o <<<<"idle_timeout", "=", "0">>>>
            \o (IF f.Cookie = 0 THEN <<>>
                ELSE <<<<"cookie", "=", "0x" \o HexPad(f.Cookie, 16)>>>>)
            \o <<<<"actions", "=">> \o Join(a.texts)>>
    IN  IF a.err # "nil" THEN [text |-> <<>>, err |-> a.err]
        ELSE [text |-> Join(tokens), err |-> "nil"]

\* math.MaxUint8 and math.MaxUint16.
MaxUint8 == 255
MaxUint16 == 65535

\* The integers that a value can spell: the small numbers, and the numbers
\* around the ends of the 8-bit and 16-bit ranges, of either sign.
IntegerValues ==
    Numbers \cup {-65537, -65536, -65535, -257, -256, -255, -1,
                  254, 255, 256, 257, 65534, 65535, 65536, 65537}

\* strconv.Itoa: the decimal text of an integer, with its sign.
FormatSigned(n) == IF n < 0 THEN "-" \o FormatInt(0 - n) ELSE FormatInt(n)

\* strconv.Atoi on a value: an optional sign and decimal digits.
parseInt(value) ==
    LET spelled == IF Len(value) # 1 THEN {}
                   ELSE {n \in IntegerValues : FormatSigned(n) = value[1]}
    IN  IF spelled = {} THEN [n |-> 0, err |-> "Atoi"]
        ELSE [n |-> CHOOSE n \in spelled : TRUE, err |-> "nil"]

\* parseClampInt: strconv.Atoi, then the value is to be at most max.
parseClampInt(value, max) ==
    LET t == parseInt(value)
    IN  IF t.err = "nil" /\ t.n > max THEN [n |-> 0, err |-> "too large"] ELSE t

NoMatch == Mt("", 0)

\* The conversions uint8(t) and uint16(t) of an int: its low 8 or 16 bits.
uint8(t) == t % 256
uint16(t) == t % 65536

\* parseIntMatch(key, value, max): the clamped integer, converted to the
\* width of the field of the key.
parseIntMatch(key, value, max) ==
    LET t == parseClampInt(value, max)
    IN  IF t.err # "nil" THEN [match |-> NoMatch, err |-> t.err]
        ELSE IF key \in {"icmp_type", "nw_proto"}
            THEN [match |-> Mt(key, uint8(t.n)), err |-> "nil"]
        ELSE IF key \in {"tp_src", "tp_dst", "ct_zone"}
            THEN [match |-> Mt(key, uint16(t.n)), err |-> "nil"]
        ELSE [match |-> NoMatch, err |-> "no action matched"]

\* parseMatch(key, value): its cases for the integer matches and for the
\* matches that keep the value as a string.
parseMatch(key, value) ==
    IF key \in {"icmp_type", "nw_proto"} THEN parseIntMatch(key, value, MaxUint8)
    ELSE IF key \in {"tp_src", "tp_dst", "ct_zone"} THEN parseIntMatch(key, value, MaxUint16)
    ELSE IF key \in {"arp_spa", "arp_tpa", "dl_src", "dl_dst", "nd_target",
                      "ipv6_src", "ipv6_dst", "nw_src", "nw_dst"}
        THEN [match |-> Mt(key, value), err |-> "nil"]
    ELSE [match |-> NoMatch, err |-> "no action matched"]

\* strings.Split(s, ","): the pieces between the commas.
RECURSIVE SplitCommas(_)
SplitCommas(text) ==
    LET cs == {i \in 1..Len(text) : text[i] = ","}
    IN  IF cs = {} THEN <<text>>
        ELSE <<SubSeq(text, 1, Min(cs) - 1)>>
             \o SplitCommas(SubSeq(text, Min(cs) + 1, Len(text)))

\* strconv.ParseUint(s, 0, 64) on a lexeme: decimal, or hexadecimal after 0x.
CookieValues(w) ==
    {n \in Cookies \cup Numbers :
        w = FormatInt(n) \/ w = "0x" \o Hex(n) \/ w = "0x" \o HexPad(n, 16)}

\* One key=value field of the line, applied to the Flow f.
parseField(f, piece) ==
    IF piece = <<>> \/ ~(\E i \in 1..Len(piece) : piece[i] = "=")
        THEN [flow |-> f, err |-> "nil"]
    ELSE
    LET key == piece[1]
        value == SubSeq(piece, 3, Len(piece))
        int == parseInt(value)
    IN  CASE key = "priority" ->
                [flow |-> [f EXCEPT !.Priority = int.n], err |-> int.err]
          [] key = "table" ->
                [flow |-> [f EXCEPT !.Table = int.n], err |-> int.err]
          [] key = "idle_timeout" ->
                [flow |-> f, err |-> int.err]
          [] key = "in_port" ->
                IF value = <<"LOCAL">> THEN [flow |-> [f EXCEPT !.InPort = PortLOCAL], err |-> "nil"]
                ELSE [flow |-> [f EXCEPT !.InPort = int.n], err |-> int.err]
          [] key = "cookie" ->
                IF Len(value) = 1 /\ CookieValues(value[1]) # {}
                THEN [flow |-> [f EXCEPT !.Cookie = CHOOSE n \in CookieValues(value[1]) : TRUE],
                      err |-> "nil"]
                ELSE [flow |-> f, err |-> "ParseUint"]
          [] OTHER ->
                LET m == parseMatch(key, value)
                IN  [flow |-> IF m.err = "nil"
                              THEN [f EXCEPT !.Matches = Append(@, m.match)] ELSE f,
                     err |-> m.err]

RECURSIVE parseFields(_, _, _)
parseFields(f, pieces, k) ==
    IF k > Len(pieces) THEN [flow |-> f, err |-> "nil"]
    ELSE LET r == parseField(f, pieces[k])
         IN  IF r.err # "nil" THEN r ELSE parseFields(r.flow, pieces, k + 1)

\* Flow.UnmarshalText: the fields before actions=, then the actions.
UnmarshalText(text) ==
    LET at == {i \in 1..(Len(text) - 1) : text[i] = "actions" /\ text[i + 1] = "="}
    IN  IF Cardinality(at) # 1 \/ at = {Len(text) - 1}
        THEN [flow |-> ZeroFlow, err |-> "errNoActions"]
        ELSE
        LET i == CHOOSE x \in at : TRUE
            fields == parseFields(ZeroFlow, SplitCommas(SubSeq(text, 1, i - 1)), 1)
            acts == Parse(SubSeq(text, i + 2, Len(text)))
        IN  IF fields.err # "nil" THEN [flow |-> ZeroFlow, err |-> fields.err]
            ELSE IF acts.err = "panic" THEN [flow |-> ZeroFlow, err |-> "panic"]
            ELSE IF acts.err # "nil" THEN [flow |-> ZeroFlow, err |-> "errInvalidActions"]
            ELSE IF Len(acts.actions) > 1 /\ HasDrop(acts.actions)
                THEN [flow |-> ZeroFlow, err |-> "errActionsWithDrop"]
            ELSE [flow |-> [fields.flow EXCEPT !.Actions = acts.actions], err |-> "nil"]

\* What the actions of this component leave alone.
FlowFrame ==
    <<vars, portVars, parserVars, matchFlowVars, bundleVars, netlinkVars, nlClientVars,
      connVars, actionTokenVars, intMatchVars, ctLimitsVars>>

FlowInit ==
    /\ ClientAtRest /\ PortRangeIdle /\ ParserIdle /\ MatchFlowIdle /\ BundleIdle
    /\ NetlinkIdle /\ NlClientIdle /\ ConnIdle /\ ActionTokenIdle /\ IntMatchIdle
    /\ CTLimitsIdle
    /\ flow \in Flows
    /\ flText = NotMarshalled
    /\ flParsed = NotUnmarshalled

CallMarshalText ==
    /\ flText = NotMarshalled
    /\ flText' = MarshalText(flow)
    /\ UNCHANGED <<flow, flParsed>>
    /\ UNCHANGED FlowFrame

CallUnmarshalText ==
    /\ flText.err = "nil"
    /\ flParsed = NotUnmarshalled
    /\ flParsed' = UnmarshalText(flText.text)
    /\ UNCHANGED <<flow, flText>>
    /\ UNCHANGED FlowFrame

FlowNext == CallMarshalText \/ CallUnmarshalText

FlowSpec == FlowInit /\ [][FlowNext]_allVars

\* C13: parsing the text emitted for a Flow succeeds and yields a Flow with
\* the same matches, actions, priority, cookie, table and input port.
C13_RoundTrip ==
    flParsed # NotUnmarshalled => (flParsed.err = "nil" /\ flParsed.flow = flow)

\* The action tokens of a rendered line.
RenderedActions(text) ==
    LET i == CHOOSE x \in 1..Len(text) : text[x] = "actions"
    IN  TopLevelTokens(SubSeq(text, i + 2, Len(text)), 1)

\* C14: MarshalText fails with errNoActions for an empty action list and
\* with errActionsWithDrop for a list of several actions one of which is
\* drop; a rendered line has an action, and no drop next to another action.
C14_NoActionsOrDropRejected ==
    flText # NotMarshalled =>
        /\ Len(flow.Actions) = 0 => flText.err = "errNoActions"
        /\ (Len(flow.Actions) > 1 /\ \E i \in 1..Len(flow.Actions) : flow.Actions[i].kind = "drop")
                => flText.err = "errActionsWithDrop"
        /\ flText.err = "nil" =>
                LET acts == RenderedActions(flText.text)
                IN  /\ \A i \in 1..Len(acts) : acts[i] # <<>>
                    /\ (\E i \in 1..Len(acts) : acts[i] = <<"drop">>) => Len(acts) = 1

C14_Witness ==
    /\ flow.Actions = <<Act("output", <<1>>), Act("drop", <<>>)>>
    /\ flText.err = "errActionsWithDrop"

\* ==== package ovs: MatchFlow.MarshalText ==================================
\* The table of a MatchFlow that is for every table.
AnyTable == 0 - 1

CookieMasks == {0, 15}
Protocols == {"", "tcp"}

MatchFlows ==
    [Cookie : Cookies, CookieMask : CookieMasks, Protocol : Protocols, InPort : InPorts,
     Matches : SeqsUpTo(MatchUniverse, 1), Table : Tables \cup {AnyTable}]

Distinguished_byTable(f) ==
    \/ f.Cookie # 0 \/ f.CookieMask # 0 \/ f.Protocol # "" \/ f.InPort # 0
    \/ f.Matches # <<>> \/ f.Table # AnyTable

\* The MatchFlow has a distinguishing field: a cookie or a cookie mask, a
\* protocol, an input port or a match.
Distinguished(f) ==
    \/ f.Cookie # 0 \/ f.CookieMask # 0 \/ f.Protocol # "" \/ f.InPort # 0
    \/ f.Matches # <<>>

\* MatchFlow.MarshalText: the tokens of the line, in their fixed order.
MatchFlowMarshalText(f) ==
    LET tokens ==
            (IF f.CookieMask # 0
                THEN <<<<"cookie", "=", "0x" \o HexPad(f.Cookie, 16), "/",
                         "0x" \o HexPad(f.CookieMask, 16)>>>>
             ELSE IF f.Cookie # 0
                THEN <<<<"cookie", "=", "0x" \o HexPad(f.Cookie, 16), "/", "-1">>>>
             ELSE <<>>)
            \o (IF f.Protocol = "" THEN <<>> ELSE <<<<f.Protocol>>>>)
            \o (IF f.InPort = 0 THEN <<>>
                ELSE <<<<"in_port", "=",
                         IF f.InPort = PortLOCAL THEN "LOCAL" ELSE FormatInt(f.InPort)>>>>)
            \o [i \in 1..Len(f.Matches) |-> MatchText(f.Matches[i])]
            \o (IF f.Table = AnyTable THEN <<>>
                ELSE <<<<"table", "=", FormatInt(f.Table)>>>>)
    IN  IF ~Distinguished(f) THEN [text |-> <<>>, err |-> "errEmptyMatchFlow"]
        ELSE [text |-> Join(tokens), err |-> "nil"]

\* What the actions of this component leave alone.
MatchFlowFrame ==
    <<vars, portVars, parserVars, flowVars, bundleVars, netlinkVars, nlClientVars,
      connVars, actionTokenVars, intMatchVars, ctLimitsVars>>

MatchFlowInit ==
    /\ ClientAtRest /\ PortRangeIdle /\ ParserIdle /\ FlowIdle /\ BundleIdle
    /\ NetlinkIdle /\ NlClientIdle /\ ConnIdle /\ ActionTokenIdle /\ IntMatchIdle
    /\ CTLimitsIdle
    /\ mf \in MatchFlows
    /\ mfText = NotMarshalled

CallMatchFlowMarshalText ==
    /\ mfText = NotMarshalled
    /\ mfText' = MatchFlowMarshalText(mf)
    /\ UNCHANGED mf
    /\ UNCHANGED MatchFlowFrame

MatchFlowNext == CallMatchFlowMarshalText

MatchFlowSpec == MatchFlowInit /\ [][MatchFlowNext]_allVars

MaxOps == 3

\* The flows and match flows that fn adds and deletes: the first of each
\* renders, the second does not.
BundleFlows ==
    {[ZeroFlow EXCEPT !.Priority = 10, !.Actions = <<Act("drop", <<>>)>>],
     [ZeroFlow EXCEPT !.Priority = 10]}
BundleMatchFlows ==
    {[ZeroMatchFlow EXCEPT !.Cookie = 10], [ZeroMatchFlow EXCEPT !.Table = AnyTable]}

ToolResults == {"nil", "exit status 1"}

FirstError_none(lines) == "nil"

\* The error of the first buffered operation that failed to render, or nil.
FirstError(lines) ==
    IF \A i \in 1..Len(lines) : lines[i].err = "nil" THEN "nil"
    ELSE lines[Min({i \in 1..Len(lines) : lines[i].err # "nil"})].err

FnRunning == bundleRet = "running" /\ txState = "open" /\ txRet = "none"

\* What the actions of this component leave alone.
BundleFrame ==
    <<vars, portVars, parserVars, flowVars, matchFlowVars, netlinkVars, nlClientVars,
      connVars, actionTokenVars, intMatchVars, ctLimitsVars>>

BundleInit ==
    /\ ClientAtRest /\ PortRangeIdle /\ ParserIdle /\ FlowIdle /\ MatchFlowIdle
    /\ NetlinkIdle /\ NlClientIdle /\ ConnIdle /\ ActionTokenIdle /\ IntMatchIdle
    /\ CTLimitsIdle
    /\ txLines = <<>> /\ txState = "open" /\ txRet = "none"
    /\ bundleRet = "running" /\ execCalls = 0

\* tx.Add(f): the line "add <rendered>", or the error of the rendering.
TxAdd(f) ==
    /\ FnRunning /\ Len(txLines) < MaxOps
    /\ txLines' = Append(txLines, [dir |-> "add"] @@ MarshalText(f))
    /\ UNCHANGED <<txState, txRet, bundleRet, execCalls>>
    /\ UNCHANGED BundleFrame

\* tx.Delete(m): the line "delete <rendered>", or the error of the rendering.
TxDelete(m) ==
    /\ FnRunning /\ Len(txLines) < MaxOps
    /\ txLines' = Append(txLines, [dir |-> "delete"] @@ MatchFlowMarshalText(m))
    /\ UNCHANGED <<txState, txRet, bundleRet, execCalls>>
    /\ UNCHANGED BundleFrame

\* tx.Commit(): the first rendering error, if any.
TxCommit ==
    /\ FnRunning
    /\ txState' = "committed"
    /\ txRet' = FirstError(txLines)
    /\ UNCHANGED <<txLines, bundleRet, execCalls>>
    /\ UNCHANGED BundleFrame

\* tx.Discard(err): the cause, wrapped.
TxDiscard ==
    /\ FnRunning
    /\ txState' = "discarded"
    /\ txRet' = "discarded: cause"
    /\ UNCHANGED <<txLines, bundleRet, execCalls>>
    /\ UNCHANGED BundleFrame

NotCommitted_ignored(state) == FALSE

\* fn returned and the transaction was neither committed nor discarded.
NotCommitted(state) == state = "open"

\* fn returns, with what Commit or Discard gave it if it called one, and
\* AddFlowBundle ends: it streams the buffer to ovs-ofctl --bundle add-flow
\* only for a committed transaction whose lines all rendered.
FnReturn(tool) ==
    /\ bundleRet = "running"
    /\ IF NotCommitted(txState)
           THEN bundleRet' = "errNotCommitted" /\ UNCHANGED execCalls
       ELSE IF txState = "discarded"
           THEN bundleRet' = txRet /\ UNCHANGED execCalls
       ELSE IF FirstError(txLines) # "nil"
           THEN bundleRet' = FirstError(txLines) /\ UNCHANGED execCalls
       ELSE bundleRet' = tool /\ execCalls' = execCalls + 1
    /\ UNCHANGED <<txLines, txState, txRet>>
    /\ UNCHANGED BundleFrame

BundleNext ==
    \/ \E f \in BundleFlows : TxAdd(f)
    \/ \E m \in BundleMatchFlows : TxDelete(m)
    \/ TxCommit
    \/ TxDiscard
    \/ \E tool \in ToolResults : FnReturn(tool)

BundleSpec == BundleInit /\ [][BundleNext]_allVars

HasReturned(r) == r \notin {"running", "notCalled"}

\* C18: when fn has returned without calling Commit or Discard, AddFlowBundle
\* returns errNotCommitted and ovs-ofctl was not invoked, whatever was added
\* and deleted.
C18_NotCommitted ==
    (HasReturned(bundleRet) /\ txState = "open") =>
        (bundleRet = "errNotCommitted" /\ execCalls = 0)

C18_Witness ==
    /\ bundleRet = "errNotCommitted" /\ txState = "open" /\ execCalls = 0
    /\ Len(txLines) = 2 /\ txLines[1].dir = "add" /\ txLines[2].dir = "delete"
    /\ txLines[1].err = "nil" /\ txLines[2].err = "nil"

\* C19: ovs-ofctl is invoked (once) only for a committed transaction whose
\* operations all rendered; Commit returns the rendering error of a buffered
\* operation, and then, as after Discard, nothing is invoked.
C19_SpawnOnlyWhenRendered ==
    /\ execCalls <= 1
    /\ execCalls = 1 =>
            (txState = "committed" /\ \A i \in 1..Len(txLines) : txLines[i].err = "nil")
    /\ (txState = "committed" /\ \E i \in 1..Len(txLines) : txLines[i].err # "nil") =>
            /\ txRet \in {txLines[i].err : i \in 1..Len(txLines)} \ {"nil"}
            /\ execCalls = 0
            /\ HasReturned(bundleRet) => bundleRet = txRet
    /\ txState = "discarded" => execCalls = 0

C19_Witness ==
    /\ txState = "committed" /\ bundleRet = "errNoActions" /\ execCalls = 0
    /\ Len(txLines) = 2 /\ txLines[1].err = "errNoActions" /\ txLines[2].err = "nil"

\* ==== package ovsnl: binary statistics attributes ===========================
\* Sizes in bytes of the structures of internal/ovsh (unsafe.Sizeof).
sizeofHeader == 4
sizeofDPStats == 32
sizeofDPMegaflowStats == 32
sizeofVportStats == 64
sizeofFlowStats == 16

\* Bytes an attribute may carry beyond the size of its structure.
MaxExtra == 1
\* Attributes in one message.
MaxAttrs == 2

\* The contents of a run of bytes: all 0x00, all 0xff, or byte i holds i.
Patterns == {"zero", "ones", "index"}
ByteOf(pat, i) == IF pat = "zero" THEN 0 ELSE IF pat = "ones" THEN 255 ELSE i % 256
Data(len, pat) == [i \in 1..len |-> ByteOf(pat, i)]

\* The lengths of interest for a structure of the given size.
AttrLens(size) == {0, 1, size - 1, size} \cup {size + k : k \in 1..MaxExtra}
AttrData(size) == {Data(len, pat) : len \in AttrLens(size), pat \in Patterns}

Attr(type, data) == [Type |-> type, Data |-> data]

DpAttributes ==
    {Attr("DpAttrStats", b) : b \in AttrData(sizeofDPStats)}
        \cup {Attr("DpAttrMegaflowStats", b) : b \in AttrData(sizeofDPMegaflowStats)}
VportAttributes ==
    {Attr("VportAttrStats", b) : b \in AttrData(sizeofVportStats)}
        \cup {Attr("VportAttrPortNo", <<1, 0, 0, 0>>)}
FlowAttributes ==
    {Attr("FlowAttrStats", b) : b \in AttrData(sizeofFlowStats)}
        \cup {Attr("FlowAttrKey", keys) : keys \in {<<>>, <<2048>>}}

\* One generic netlink message of a response: the bytes of the OVS header it
\* carries, and the attributes that follow a whole header.
Messages(attributes) ==
    {[hdrLen |-> 0, attrs |-> <<>>]}
        \cup {[hdrLen |-> sizeofHeader, attrs |-> a] : a \in SeqsUpTo(attributes, MaxAttrs)}

Families == {"ovs_datapath", "ovs_vport", "ovs_flow"}
MessagesOf(family) ==
    IF family = "ovs_datapath" THEN Messages(DpAttributes)
    ELSE IF family = "ovs_vport" THEN Messages(VportAttributes)
    ELSE Messages(FlowAttributes)

\* A parser's result: the value, the error, and the bytes it read beyond the
\* end of an attribute's data.
Parsed(val, err, over) == [val |-> val, err |-> err, over |-> over]

headerError == "not enough data for OVS message header"

ZeroDatapathStats == [Hit |-> <<>>, Missed |-> <<>>, Lost |-> <<>>, Flows |-> <<>>]

parseDPStats(b) ==
    IF sizeofDPStats # Len(b)
        THEN Parsed(ZeroDatapathStats, "unexpected datapath stats structure size", 0)
    ELSE Parsed([Hit    |-> SubSeq(b, 1, 8),
                 Missed |-> SubSeq(b, 9, 16),
                 Lost   |-> SubSeq(b, 17, 24),
                 Flows  |-> SubSeq(b, 25, 32)], "nil", 0)

ZeroDatapathMegaflowStats == [MaskHits |-> <<>>, Masks |-> <<>>]

parseDPMegaflowStats(b) ==
    IF sizeofDPMegaflowStats # Len(b)
        THEN Parsed(ZeroDatapathMegaflowStats,
                    "unexpected datapath megaflow stats structure size", 0)
    ELSE Parsed([MaskHits |-> SubSeq(b, 1, 8), Masks |-> SubSeq(b, 9, 12)], "nil", 0)

ZeroDatapath == [Stats |-> ZeroDatapathStats, MegaflowStats |-> ZeroDatapathMegaflowStats]

RECURSIVE parseDatapathAttrs(_, _, _)
parseDatapathAttrs(attrs, i, dp) ==
    IF i > Len(attrs) THEN Parsed(<<dp>>, "nil", 0)
    ELSE LET a == attrs[i] IN
         IF a.Type = "DpAttrStats"
             THEN LET s == parseDPStats(a.Data) IN
                  IF s.err # "nil" THEN Parsed(<<>>, s.err, 0)
                  ELSE parseDatapathAttrs(attrs, i + 1, [dp EXCEPT !.Stats = s.val])
         ELSE IF a.Type = "DpAttrMegaflowStats"
             THEN LET s == parseDPMegaflowStats(a.Data) IN
                  IF s.err # "nil" THEN Parsed(<<>>, s.err, 0)
                  ELSE parseDatapathAttrs(attrs, i + 1, [dp EXCEPT !.MegaflowStats = s.val])
         ELSE parseDatapathAttrs(attrs, i + 1, dp)

\* parseDatapaths, of a response of one message.
parseDatapaths(m) ==
    IF m.hdrLen < sizeofHeader THEN Parsed(<<>>, headerError, 0)
    ELSE parseDatapathAttrs(m.attrs, 1, ZeroDatapath)

ZeroVportStats ==
    [RxPackets |-> <<>>, TxPackets |-> <<>>, RxBytes |-> <<>>, TxBytes |-> <<>>,
     RxErrors |-> <<>>, TxErrors |-> <<>>, RxDropped |-> <<>>, TxDropped |-> <<>>]

parseVportStats(b) ==
    IF sizeofVportStats # Len(b)
        THEN Parsed(ZeroVportStats, "unexpected vport stats structure size", 0)
    ELSE Parsed([RxPackets |-> SubSeq(b, 1, 8),
                 TxPackets |-> SubSeq(b, 9, 16),
                 RxBytes   |-> SubSeq(b, 17, 24),
                 TxBytes   |-> SubSeq(b, 25, 32),
                 RxErrors  |-> SubSeq(b, 33, 40),
                 TxErrors  |-> SubSeq(b, 41, 48),
                 RxDropped |-> SubSeq(b, 49, 56),
                 TxDropped |-> SubSeq(b, 57, 64)], "nil", 0)

ZeroVport == [ID |-> <<>>, Stats |-> ZeroVportStats]

RECURSIVE parseVportAttrs(_, _, _)
parseVportAttrs(attrs, i, vport) ==
    IF i > Len(attrs) THEN Parsed(<<vport>>, "nil", 0)
    ELSE LET a == attrs[i] IN
         IF a.Type = "VportAttrPortNo"
             THEN parseVportAttrs(attrs, i + 1, [vport EXCEPT !.ID = a.Data])
         ELSE IF a.Type = "VportAttrStats"
             THEN LET s == parseVportStats(a.Data) IN
                  IF s.err # "nil" THEN Parsed(<<>>, s.err, 0)
                  ELSE parseVportAttrs(attrs, i + 1, [vport EXCEPT !.Stats = s.val])
         ELSE parseVportAttrs(attrs, i + 1, vport)

parseVport(m) ==
    IF m.hdrLen < sizeofHeader THEN Parsed(<<>>, headerError, 0)
    ELSE parseVportAttrs(m.attrs, 1, ZeroVport)

ZeroFlowStats == [Packets |-> <<0, 0, 0, 0, 0, 0, 0, 0>>, Bytes |-> <<0, 0, 0, 0, 0, 0, 0, 0>>]
ZeroNlFlow == [Keys |-> <<>>, Stats |-> ZeroFlowStats]

\* What the bytes after the end of an attribute's data hold when they are
\* read: some contents, or no mapped memory at all.
Beyond == Patterns \cup {"fault"}

\* The sizeofFlowStats bytes at &b[0], for a b of at least one byte: those
\* of b, then those that follow b in memory.
BytesAt(b, beyond) ==
    [i \in 1..sizeofFlowStats |-> IF i <= Len(b) THEN b[i] ELSE ByteOf(beyond, i)]

RECURSIVE parseFlowAttrs(_, _, _, _, _)
parseFlowAttrs(attrs, i, f, over, beyond) ==
    IF i > Len(attrs) THEN
        IF Len(f.Keys) = 0 \/ f.Stats = ZeroFlowStats
            THEN Parsed(<<>>, "nil", over)
        ELSE Parsed(<<f>>, "nil", over)
    ELSE LET a == attrs[i] IN
         IF a.Type = "FlowAttrKey"
             THEN parseFlowAttrs(attrs, i + 1, [f EXCEPT !.Keys = a.Data], over, beyond)
         ELSE IF a.Type = "FlowAttrStats"
             THEN IF Len(a.Data) = 0
                      THEN Parsed(<<>>, "panic: index out of range", over)
                  ELSE IF Len(a.Data) < sizeofFlowStats /\ beyond = "fault"
                      THEN Parsed(<<>>, "fault", Max({over, 1}))
                  ELSE LET s == BytesAt(a.Data, beyond) IN
                       parseFlowAttrs(attrs, i + 1,
                           [f EXCEPT !.Stats = [Packets |-> SubSeq(s, 1, 8),
                                                Bytes   |-> SubSeq(s, 9, 16)]],
                           Max({over, sizeofFlowStats - Len(a.Data)}), beyond)
         ELSE parseFlowAttrs(attrs, i + 1, f, over, beyond)

\* parseFlows, of a response of one message.
parseFlows(m, beyond) ==
    IF m.hdrLen < sizeofHeader THEN Parsed(<<>>, headerError, 0)
    ELSE parseFlowAttrs(m.attrs, 1, ZeroNlFlow, 0, beyond)

\* What the actions of this component leave alone.
NetlinkFrame ==
    <<vars, portVars, parserVars, flowVars, matchFlowVars, bundleVars, nlClientVars,
      connVars, actionTokenVars, intMatchVars, ctLimitsVars>>

NetlinkInit ==
    /\ ClientAtRest /\ PortRangeIdle /\ ParserIdle /\ FlowIdle /\ MatchFlowIdle
    /\ BundleIdle /\ NlClientIdle /\ ConnIdle /\ ActionTokenIdle /\ IntMatchIdle
    /\ CTLimitsIdle
    /\ nlFamily \in Families
    /\ nlMsg \in MessagesOf(nlFamily)
    /\ nlResult = NotCalled

NlPending(family) == nlFamily = family /\ nlResult = NotCalled

DatapathList ==
    /\ NlPending("ovs_datapath")
    /\ nlResult' = parseDatapaths(nlMsg)
    /\ UNCHANGED <<nlFamily, nlMsg>>
    /\ UNCHANGED NetlinkFrame

VportGet ==
    /\ NlPending("ovs_vport")
    /\ nlResult' = parseVport(nlMsg)
    /\ UNCHANGED <<nlFamily, nlMsg>>
    /\ UNCHANGED NetlinkFrame

FlowList ==
    /\ NlPending("ovs_flow")
    /\ \E beyond \in Beyond : nlResult' = parseFlows(nlMsg, beyond)
    /\ UNCHANGED <<nlFamily, nlMsg>>
    /\ UNCHANGED NetlinkFrame

NetlinkNext == DatapathList \/ VportGet \/ FlowList

NetlinkSpec == NetlinkInit /\ [][NetlinkNext]_allVars

\* The size of the structure that a statistics attribute of the type holds.
StatsSize(type) ==
    IF type = "DpAttrStats" THEN sizeofDPStats
    ELSE IF type = "DpAttrMegaflowStats" THEN sizeofDPMegaflowStats
    ELSE IF type = "VportAttrStats" THEN sizeofVportStats
    ELSE IF type = "FlowAttrStats" THEN sizeofFlowStats
    ELSE 0 - 1

IsStats(a) == StatsSize(a.Type) >= 0
WrongSize(a) == IsStats(a) /\ Len(a.Data) # StatsSize(a.Type)

SizeErrors ==
    {"unexpected datapath stats structure size",
     "unexpected datapath megaflow stats structure size",
     "unexpected vport stats structure size",
     "unexpected flow stats structure size"}

\* C20: a parsed response never read beyond the end of an attribute's data,
\* and when one of its DPStats, DPMegaflowStats, VportStats or FlowStats
\* attributes has a length other than the size of its structure, the parser
\* returned a size-mismatch error instead of a value.
C20_StatsSizeValidated ==
    nlResult # NotCalled =>
        /\ nlResult.over = 0
        /\ (\E i \in 1..Len(nlMsg.attrs) : WrongSize(nlMsg.attrs[i])) =>
                (nlResult.err \in SizeErrors /\ nlResult.val = <<>>)
\* ==== package ovsnl: newClient =============================================
\* Families that one listing holds.
MaxFamilies == 3

\* Family names, the prefix "ovs_" a lexeme of its own.
FamilyNames ==
    {<<"TASKSTATS">>, <<"nl80211">>, <<"ovs_", "datapath">>, <<"ovs_", "vport">>,
     <<"ovs_", "flow">>, <<"ovs_", "foo">>}

initFamily_any(f) == "nil"

\* Client.initFamily: binds the service of a family it knows.
initFamily(f) ==
    IF f \in {<<"ovs_", "datapath">>, <<"ovs_", "vport">>} THEN "nil"
    ELSE "unknown OVS generic netlink family"

\* The families that the loop of Client.init counts (gotf) and binds.
Bound(families) ==
    {i \in 1..Len(families) :
        HasPrefix(families[i], <<"ovs_">>) /\ initFamily(families[i]) = "nil"}

Client_init_unchecked(families) == "nil"

\* Client.init
Client_init(families) ==
    IF Cardinality(Bound(families)) = 0 THEN "ErrNotExist" ELSE "nil"

\* newClient: the connection is closed on every error.
newClient(families, listErr) ==
    IF listErr # "nil" THEN [services |-> {}, err |-> listErr, closed |-> TRUE]
    ELSE IF Client_init(families) # "nil"
        THEN [services |-> {}, err |-> Client_init(families), closed |-> TRUE]
    ELSE [services |-> {families[i] : i \in Bound(families)}, err |-> "nil",
          closed |-> FALSE]

\* What the actions of this component leave alone.
NlClientFrame ==
    <<vars, portVars, parserVars, flowVars, matchFlowVars, bundleVars, netlinkVars,
      connVars, actionTokenVars, intMatchVars, ctLimitsVars>>

NlClientInit ==
    /\ ClientAtRest /\ PortRangeIdle /\ ParserIdle /\ FlowIdle /\ MatchFlowIdle
    /\ BundleIdle /\ NetlinkIdle /\ ConnIdle /\ ActionTokenIdle /\ IntMatchIdle
    /\ CTLimitsIdle
    /\ nlcFamilies \in SeqsUpTo(FamilyNames, MaxFamilies)
    /\ nlcListErr \in {"nil", "netlink: operation not permitted"}
    /\ nlcResult = NotCalled

CallNewClient ==
    /\ nlcResult = NotCalled
    /\ nlcResult' = newClient(nlcFamilies, nlcListErr)
    /\ UNCHANGED <<nlcFamilies, nlcListErr>>
    /\ UNCHANGED NlClientFrame

NlClientNext == CallNewClient

NlClientSpec == NlClientInit /\ [][NlClientNext]_allVars

Listed(families) == {families[i] : i \in 1..Len(families)}

\* C21: when the families were listed and none of them has a name that starts
\* with ovs_, newClient returns the not-found error (os.ErrNotExist, for which
\* os.IsNotExist is true) and has closed the connection.
C21_NoOvsFamilyIsNotExist ==
    (/\ nlcResult # NotCalled
     /\ nlcListErr = "nil"
     /\ \A f \in Listed(nlcFamilies) : ~HasPrefix(f, <<"ovs_">>)) =>
        (nlcResult.err = "ErrNotExist" /\ nlcResult.closed)

\* TASKSTATS and nl80211 are listed, as in TestClientNoFamiliesIsNotExist.
C21_Witness ==
    /\ nlcFamilies = <<<<"TASKSTATS">>, <<"nl80211">>>>
    /\ nlcListErr = "nil"
    /\ nlcResult # NotCalled
    /\ nlcResult.err = "ErrNotExist" /\ nlcResult.closed

MaxSends == 2

\* The requests that callers pass to Send: those of Client.rpc (an id of
\* requestID, nil or non-nil params) and the zero Request of the tests.
Requests ==
    [ID : {"", "1", "10"}, Method : {"", "list_dbs", "echo"},
     Params : {NilParams, EchoArg, "[\"db\",{\"op\":\"select\"}]"}]

\* encoding/json of Request.Params: the nil interface is written as null.
EncodeParams(params) == IF params = NilParams THEN "null" ELSE params

\* Conn.Send on a stream that takes the write (ok) or fails it.
Send(req, ok) ==
    IF req.ID = ""
        THEN [err |-> "JSON-RPC request ID must not be empty", written |-> <<>>]
    ELSE IF ~ok
        THEN [err |-> "failed to encode JSON-RPC request", written |-> <<>>]
    ELSE [err |-> "nil",
          written |-> <<[id |-> req.ID, method |-> req.Method,
                         params |-> EncodeParams(SendParams(req.Params))]>>]

\* What the actions of this component leave alone.
ConnFrame ==
    <<vars, portVars, parserVars, flowVars, matchFlowVars, bundleVars, netlinkVars,
      nlClientVars, actionTokenVars, intMatchVars, ctLimitsVars>>

ConnInit ==
    /\ ClientAtRest /\ PortRangeIdle /\ ParserIdle /\ FlowIdle /\ MatchFlowIdle
    /\ BundleIdle /\ NetlinkIdle /\ NlClientIdle /\ ActionTokenIdle /\ IntMatchIdle
    /\ CTLimitsIdle
    /\ cnStream = <<>> /\ cnLast = NoSend /\ cnSends = 0

ConnSend(req, ok) ==
    /\ cnSends < MaxSends
    /\ cnSends' = cnSends + 1
    /\ cnStream' = cnStream \o Send(req, ok).written
    /\ cnLast' = [req |-> req, err |-> Send(req, ok).err,
                  wrote |-> Len(Send(req, ok).written)]
    /\ UNCHANGED ConnFrame

ConnNext == \E req \in Requests, ok \in BOOLEAN : ConnSend(req, ok)

ConnSpec == ConnInit /\ [][ConnNext]_allVars

\* C23: every request on the stream has a non-empty id and params other than
\* null; a Send of a request with an empty id returned an error and wrote
\* nothing; a Send that succeeded for a request without params wrote the
\* empty array for them.
C23_WrittenRequestsWellFormed ==
    /\ \A i \in 1..Len(cnStream) : cnStream[i].id # "" /\ cnStream[i].params # "null"
    /\ (cnLast # NoSend /\ cnLast.req.ID = "") => (cnLast.err # "nil" /\ cnLast.wrote = 0)
    /\ (cnLast # NoSend /\ cnLast.err = "nil" /\ cnLast.req.Params = NilParams) =>
            (cnLast.wrote = 1 /\ cnStream[Len(cnStream)].params = "[]")

\* list_dbs was written with the empty array for its omitted params, then the
\* zero Request was refused.
C23_Witness ==
    /\ cnStream = <<[id |-> "1", method |-> "list_dbs", params |-> "[]"]>>
    /\ cnLast # NoSend
    /\ cnLast.req = [ID |-> "", Method |-> "", Params |-> NilParams]
    /\ cnLast.err # "nil" /\ cnLast.wrote = 0
\* ==== package ovs: parseAction on conjunction ===============================
\* The largest id, dimension number and dimension total of the tokens.
MaxDimension == 4

\* conjunction(<id>,<k>/<n>) as Action.MarshalText writes it.
ConjunctionText(id, k, n) ==
    <<"conjunction", "(", FormatInt(id), ",", FormatInt(k), "/", FormatInt(n), ")">>

\* The tokens: every conjunction of small numbers, some of them cut short or
\* with a word for a number, and actions of other kinds.
ActionTokens ==
    LET whole == {ConjunctionText(id, k, n) :
                     id \in 0..MaxDimension, k \in 0..MaxDimension, n \in 0..MaxDimension}
    IN  whole \cup {SubSeq(t, 1, 7) : t \in whole}
              \cup {[t EXCEPT ![5] = "drop"] : t \in whole}
              \cup {<<"drop">>, <<"output", ":", "1">>, <<"conjunction">>}

\* What the actions of this component leave alone.
ActionTokenFrame ==
    <<vars, portVars, parserVars, flowVars, matchFlowVars, bundleVars, netlinkVars,
      nlClientVars, connVars, intMatchVars, ctLimitsVars>>

ActionTokenInit ==
    /\ ClientAtRest /\ PortRangeIdle /\ ParserIdle /\ FlowIdle /\ MatchFlowIdle
    /\ BundleIdle /\ NetlinkIdle /\ NlClientIdle /\ ConnIdle /\ IntMatchIdle
    /\ CTLimitsIdle
    /\ atToken \in ActionTokens
    /\ atResult = NotRecognized

CallParseAction ==
    /\ atResult = NotRecognized
    /\ atResult' = parseAction(atToken)
    /\ UNCHANGED atToken
    /\ UNCHANGED ActionTokenFrame

ActionTokenNext == CallParseAction

ActionTokenSpec == ActionTokenInit /\ [][ActionTokenNext]_allVars

\* C28: parseAction yields no action for the text conjunction(<id>,<k>/<n>)
\* with k greater than n: it returns errDimensionTooLarge.
C28_DimensionTooLargeRejected ==
    \A id, k, n \in 0..MaxDimension :
        (atResult # NotRecognized /\ atToken = ConjunctionText(id, k, n) /\ k > n) =>
            (atResult.err = "errDimensionTooLarge" /\ atResult.act = NoAction)
\* ==== package ovs: parseMatch on the integer matches ========================
\* The keys of the 8-bit and of the 16-bit integer matches.
Uint8Keys == {"icmp_type", "nw_proto"}
Uint16Keys == {"tp_src", "tp_dst", "ct_zone"}

\* The keys of the calls: the integer matches, a string match, an unknown key.
IntMatchKeys == Uint8Keys \cup Uint16Keys \cup {"nw_src", "bogus"}

\* The values of the calls: the spelling of every integer of the model, an
\* empty value and a word.
IntMatchValues == {<<FormatSigned(n)>> : n \in IntegerValues} \cup {<<>>, <<"drop">>}

\* What the actions of this component leave alone.
IntMatchFrame ==
    <<vars, portVars, parserVars, flowVars, matchFlowVars, bundleVars, netlinkVars,
      nlClientVars, connVars, actionTokenVars, ctLimitsVars>>

IntMatchInit ==
    /\ ClientAtRest /\ PortRangeIdle /\ ParserIdle /\ FlowIdle /\ MatchFlowIdle
    /\ BundleIdle /\ NetlinkIdle /\ NlClientIdle /\ ConnIdle /\ ActionTokenIdle
    /\ CTLimitsIdle
    /\ imKey \in IntMatchKeys
    /\ imValue \in IntMatchValues
    /\ imResult = MatchNotCalled

CallParseMatch ==
    /\ imResult = MatchNotCalled
    /\ imResult' = parseMatch(imKey, imValue)
    /\ UNCHANGED <<imKey, imValue>>
    /\ UNCHANGED IntMatchFrame

IntMatchNext == CallParseMatch

IntMatchSpec == IntMatchInit /\ [][IntMatchNext]_allVars

\* The largest value of the field of a key.
MaxOf(key) == IF key \in Uint8Keys THEN MaxUint8 ELSE MaxUint16

\* C29: for icmp_type and nw_proto a value is accepted only in 0..255, for
\* tp_src, tp_dst and ct_zone only in 0..65535; a value outside the range is
\* rejected with an error and an accepted value is stored unchanged.
C29_IntMatchWithinRange ==
    \A n \in IntegerValues :
        (/\ imResult # MatchNotCalled
         /\ imKey \in Uint8Keys \cup Uint16Keys
         /\ imValue = <<FormatSigned(n)>>) =>
            /\ (n < 0 \/ n > MaxOf(imKey)) => imResult.err # "nil"
            /\ imResult.err = "nil" => imResult.match = Mt(imKey, n)
\* ==== package ovs: DataPathService.GetCTLimits ==============================
\* The longest command output, in lexemes.
MaxOutputLen == 5

\* The line feed, and the lexemes that an output is made of.
LF == "\n"
OutputLexemes == {"default", "zone", "1", "=", ",", LF}

\* strings.Split(s, sep): the pieces between the separators; one empty piece
\* for an empty string.
RECURSIVE StringsSplit(_, _)
StringsSplit(text, sep) ==
    LET at == {i \in 1..Len(text) : text[i] = sep}
    IN  IF at = {} THEN <<text>>
        ELSE <<SubSeq(text, 1, Min(at) - 1)>>
             \o StringsSplit(SubSeq(text, Min(at) + 1, Len(text)), sep)

\* regexp `default` MatchString: the entry holds the word.
MatchDefault(entry) == \E i \in 1..Len(entry) : entry[i] = "default"

\* strconv.Atoi on a piece of text: decimal digits only, and at least one.
RECURSIVE DecimalValue(_)
DecimalValue(piece) ==
    IF piece = <<>> THEN 0
    ELSE 10 * DecimalValue(SubSeq(piece, 1, Len(piece) - 1)) + Atoi(piece[Len(piece)])

AtoiText(piece) ==
    IF piece # <<>> /\ \A i \in 1..Len(piece) : piece[i] \in {Digits[d] : d \in 1..10}
    THEN [n |-> DecimalValue(piece), err |-> "nil"]
    ELSE [n |-> 0, err |-> "Atoi"]

\* A CTLimit map with one more assignment z[key] = val.
SetLimit(z, key, val) ==
    [k \in DOMAIN z \cup {key} |-> IF k = key THEN val ELSE z[k]]

\* The first loop of GetCTLimits, from index i (counted from 1) of the range
\* over the split output: array is the storage that the range and entries
\* share, length the current length of entries. An entry holding default
\* gives the default limit from its second =-piece and is cut out of entries
\* in place.
RECURSIVE extractDefault(_, _, _, _)
extractDefault(array, length, i, def) ==
    IF i > Len(array) THEN CtOut(def, SubSeq(array, 1, length), "nil")
    ELSE IF ~MatchDefault(array[i]) THEN extractDefault(array, length, i + 1, def)
    ELSE LET pieces == StringsSplit(array[i], "=")
             limit == AtoiText(pieces[2])
         IN  IF Len(pieces) < 2 THEN CtNil("panic")
             ELSE IF limit.err # "nil" THEN CtNil(limit.err)
             ELSE IF i > length THEN CtNil("panic")
             ELSE extractDefault(
                     [k \in 1..Len(array) |->
                         IF k >= i /\ k <= length - 1 THEN array[k + 1] ELSE array[k]],
                     length - 1, i + 1, SetLimit(NoLimits, <<"default">>, limit.n))

\* The inner loop of the second loop: the fields of one entry, from field k,
\* put into the map z; "panic" for a field without =.
RECURSIVE zoneOf(_, _, _)
zoneOf(fields, k, z) ==
    IF k > Len(fields) THEN [z |-> z, err |-> "nil"]
    ELSE LET buf == StringsSplit(fields[k], "=")
             val == AtoiText(buf[2])
         IN  IF Len(buf) < 2 THEN [z |-> NoLimits, err |-> "panic"]
             ELSE zoneOf(fields, k + 1, SetLimit(z, buf[1], val.n))

\* The second loop: one map for every entry that is left.
RECURSIVE zonesOf(_, _)
zonesOf(entries, j) ==
    IF j > Len(entries) THEN [zones |-> <<>>, err |-> "nil"]
    ELSE LET z == zoneOf(StringsSplit(entries[j], ","), 1, NoLimits)
             rest == zonesOf(entries, j + 1)
         IN  IF z.err # "nil" THEN [zones |-> <<>>, err |-> z.err]
             ELSE IF rest.err # "nil" THEN rest
             ELSE [zones |-> <<z.z>> \o rest.zones, err |-> "nil"]

\* GetCTLimits(dpName, zones) when the command fails (execErr) or prints
\* results.
GetCTLimits(dpName, execErr, results) ==
    IF dpName = "" THEN CtNil("errMissingMandatoryDataPathName")
    ELSE IF execErr THEN CtNil("exec")
    ELSE LET entries == StringsSplit(results, LF)
             first == extractDefault(entries, Len(entries), 1, NoLimits)
             zones == zonesOf(first.zoneLimits, 1)
         IN  IF first.err # "nil" THEN first
             ELSE IF zones.err # "nil" THEN CtNil(zones.err)
             ELSE CtOut(first.defaultLimit, zones.zones, "nil")

\* What the actions of this component leave alone.
CTLimitsFrame == <<vars, portVars, parserVars, flowVars, matchFlowVars, bundleVars, netlinkVars,
      nlClientVars, connVars, actionTokenVars, intMatchVars>>

CTLimitsInit ==
    /\ ClientAtRest /\ PortRangeIdle /\ ParserIdle /\ FlowIdle /\ MatchFlowIdle
    /\ BundleIdle /\ NetlinkIdle /\ NlClientIdle /\ ConnIdle /\ ActionTokenIdle
    /\ IntMatchIdle
    /\ ctName \in {"", "ovs-system"}
    /\ ctExecErr \in BOOLEAN
    /\ ctOutput \in SeqsUpTo(OutputLexemes, MaxOutputLen)
    /\ ctResult = CtNotCalled

CallGetCTLimits ==
    /\ ctResult = CtNotCalled
    /\ ctResult' = GetCTLimits(ctName, ctExecErr, ctOutput)
    /\ UNCHANGED <<ctName, ctExecErr, ctOutput>>
    /\ UNCHANGED CTLimitsFrame

CTLimitsNext == CallGetCTLimits

CTLimitsSpec == CTLimitsInit /\ [][CTLimitsNext]_allVars

\* C30: GetCTLimits returns a result or an error for every output of the
\* command: it never indexes past the end of a split line or field.
C30_NoIndexOutOfRange == ctResult.err # "panic"

====
